---- MODULE Spec2Model ----
(***************************************************************************)
(* Model of the IBKR bridge: the wrapper's request-correlation tables       *)
(* (handlers/ibkr_api_wrapper.py) and the base handler's connection and     *)
(* request facade (handlers/ibkr_base_handler.py, ibkr_option_handler.py).  *)
(*                                                                         *)
(* Two execution contexts are modelled: the asyncio event loop (caller     *)
(* tasks, the connection task and the callbacks posted with                *)
(* call_soon_threadsafe) and the receiver thread that runs EClient.run()   *)
(* and delivers the EWrapper callbacks.                                    *)
(***************************************************************************)
EXTENDS Integers, Sequences, FiniteSets, TLC

\* ---------------------------------------------------------------- bounds
\* Highest request id the model lets get_next_req_id hand out.
MaxId == 3
\* Most gateway events the receiver thread delivers with an effect (an event
\* its handler drops is not counted).
MaxEvents == 4
\* Most receiver threads started earlier and still alive the model counts.
MaxOldThreads == 1

\* ------------------------------------------------------------- constants
\* Caller tasks; each runs one facade operation.
Callers == {"t1", "t2"}
NoFuture == "nofuture"
Ids == 1..MaxId
\* The id the gateway uses for events not tied to a request.
NO_ID == -1
\* Payloads of list-accumulating data events (bars, contract details, ...).
DataVals == {1, 2}
\* Order ids the gateway may deliver with nextValidId.
OrderIds == {0, 1}
\* Values int(time.time() * 1000) % 1000000 may take, cut to the model's ids.
TimeSeeds == {0, 1}
ListKinds == {"hist", "cd", "opt"}
\* The requests that accumulate a dict: market-data snapshot, account summary.
MapKinds == {"mkt", "acct"}
Kinds == ListKinds \cup MapKinds \cup {"pos", "order"}
\* Tick names and account-summary tags.
TickKeys == {"LAST", "CLOSE"}
\* Order statuses the gateway reports in the model, and filled quantities.
OrderStatuses == {"PreSubmitted", "Submitted", "Filled"}
FilledVals == {0, 1}
TERMINAL_STATES == {"Filled", "Cancelled", "ApiCancelled", "Inactive"}
\* Positions the gateway may report.
PosVals == {[symbol |-> "SPY", secType |-> "STK", position |-> 1, averageCost |-> 450],
            [symbol |-> "SPY", secType |-> "STK", position |-> 3, averageCost |-> 455],
            [symbol |-> "ES", secType |-> "FUT", position |-> 2, averageCost |-> 5000]}

\* The allow-list without 2108.
MutIgnorableCodes == {10167, 2104, 2106, 2158}
IGNORABLE_ERROR_CODES == {10167, 2104, 2106, 2108, 2158}
\* Codes of the error events the gateway sends in the model: the five
\* informational codes and one other.
ErrorCodes == {10167, 2104, 2106, 2108, 2158, 200}

\* ---------------------------------------------------------------- values
NoVal == [t |-> "none"]
\* A result: v is the value, obj names the list or dict object it is (the
\* accumulator registered by caller obj), "fresh" when nothing else holds it.
Result(items, obj) == [t |-> "result", v |-> items, obj |-> obj]
\* The error with its request id and its code in each other's place.
MutApiError(reqId, code, msg) ==
    [t |-> "IBKRApiError", reqId |-> code, code |-> reqId, message |-> msg]
IBKRApiError(reqId, code, msg) ==
    [t |-> "IBKRApiError", reqId |-> reqId, code |-> code, message |-> msg]
ConnectionClosedError == IBKRApiError(-1, -1, "Connection closed by IBKR")
TimeoutError == [t |-> "TimeoutError"]
NotConnectedError == [t |-> "ConnectionError"]
ValueError == [t |-> "ValueError"]

\* The log of what the gateway delivered to a request's slot: nothing yet.
NoArrivals == [data |-> <<>>, endAt |-> -1, ignored |-> FALSE, err |-> NoVal]

\* A finally block that cancels nothing.
MutFinallyCancel(k, i) == <<>>

\* The cancel requests the finally block of a facade operation of kind k with
\* request id i hands to the client.
FinallyCancel(k, i) ==
    IF k = "mkt" THEN <<[call |-> "cancelMktData", id |-> i]>>
    ELSE IF k = "acct" THEN <<[call |-> "cancelAccountSummary", id |-> i]>>
    ELSE IF k = "pos" THEN <<[call |-> "cancelPositions", id |-> 0]>>
    ELSE <<>>

\* What a step returns: nothing, the outcome of caller c's facade operation
\* (with the log of its slot and the cancels its finally block sent),
\* connect()'s value, disconnect()'s return.
NoRet == [op |-> "none"]
Returns(c, k, i, out, log) ==
    [op |-> k, c |-> c, id |-> i, out |-> out, log |-> log, sent |-> FinallyCancel(k, i)]
ConnectReturned(ok) == [op |-> "connect", ok |-> ok]
DisconnectReturned == [op |-> "disconnect"]

\* ----------------------------------------------------------------- dicts
EmptyDict == [x \in {} |-> NoVal]
Put(d, k, v) == [x \in (DOMAIN d) \cup {k} |-> IF x = k THEN v ELSE d[x]]
Pop(d, k) == [x \in (DOMAIN d) \ {k} |-> d[x]]
Min(S) == CHOOSE x \in S : \A y \in S : x <= y

VARIABLES
    \* IBKROfficialAPIWrapper
    futures, request_data_store, positions_future, positions_data,
    next_valid_order_id, initial_connection_made, connection_event,
    connection_error_code,
    \* IBKRBaseHandler; loop_running: whether self.loop is running
    req_id_counter, is_connected_flag, api_thread, loop_running,
    \* EClient.isConnected()
    clientConnected,
    \* asyncio: the futures the callers await, the loop's ready queue
    fut, loopQ,
    \* tasks: the callers and the task that calls connect() / disconnect()
    caller, connPc,
    \* the receiver thread
    rt,
    \* the exception the last step raised ("" when none)
    raised,
    \* what the last step returned to the task that called the operation
    ret,
    \* the id the last get_next_req_id call of this connection returned
    lastIssued,
    \* per caller, what the gateway delivered for its request while it waited:
    \* the data events in arrival order, and how many of them had arrived when
    \* the first end event came (-1: no end event yet)
    arrived,
    \* how many gateway events have had an effect
    nEvents

wvars == <<futures, request_data_store, positions_future, positions_data,
           next_valid_order_id, initial_connection_made, connection_event,
           connection_error_code>>
hvars == <<req_id_counter, is_connected_flag, api_thread, loop_running, clientConnected>>
vars == <<nEvents, arrived, wvars, hvars, fut, loopQ, caller, connPc, rt, raised, ret,
          lastIssued>>

\* The receiver thread api_thread was last set to: where it is, and, in old,
\* how many threads started before it are still alive.
IdleThread == [pc |-> "none", by |-> "", left |-> {}, size |-> 0, old |-> 0]
RunningThread == [pc |-> "running", by |-> "", left |-> {}, size |-> 0, old |-> 0]

\* A caller before its operation and after it: each caller runs one.
IdleCaller == [pc |-> "idle", kind |-> "none", id |-> 0]
DoneCaller == [pc |-> "done", kind |-> "none", id |-> 0]
\* The future a returned caller leaves behind; its value is read no more.
Spent(f) == [f EXCEPT !.val = NoVal]

\* A wait that never times out.
MutTimeout(c) == FALSE /\ UNCHANGED vars

Init ==
    /\ futures = EmptyDict
    /\ request_data_store = EmptyDict
    /\ positions_future = NoFuture
    /\ positions_data = <<>>
    /\ next_valid_order_id = 0
    /\ initial_connection_made = FALSE
    /\ connection_event = FALSE
    /\ connection_error_code = "None"
    /\ req_id_counter = 0
    /\ is_connected_flag = FALSE
    /\ api_thread = FALSE
    /\ clientConnected = FALSE
    /\ loop_running = TRUE
    /\ fut = [c \in Callers |-> [st |-> "none", val |-> NoVal]]
    /\ loopQ = <<>>
    /\ caller = [c \in Callers |-> IdleCaller]
    /\ connPc = "idle"
    /\ ret = NoRet
    /\ rt = IdleThread
    /\ raised = ""
    /\ lastIssued = 0
    /\ arrived = [c \in Callers |-> NoArrivals]
    /\ nEvents = 0

\* The receiver thread has been started and has not finished.
ThreadAlive == rt.pc \notin {"none", "exited"}

is_connected == clientConnected /\ is_connected_flag

\* ------------------------------------------------- completing a future
\* _safe_set_future_result / _safe_set_future_exception with the loop
\* running: the done() test is made now, on the calling thread, and the
\* completion itself is posted to the loop with call_soon_threadsafe.
SafeSet(q, op, f, val) ==
    IF f # NoFuture /\ fut[f].st = "pending" /\ loop_running
    THEN Append(q, [op |-> op, fut |-> f, val |-> val])
    ELSE q

\* A helper that posts to the loop or does nothing.
MutSafeSetDirect(op, f, val) == fut

\* The same two helpers with the loop not running (the else branch):
\* future.set_result / future.set_exception is called on the calling thread.
SafeSetDirect(op, f, val) ==
    IF f # NoFuture /\ fut[f].st = "pending" /\ ~loop_running
    THEN [fut EXCEPT ![f] = [st |-> IF op = "set_result" THEN "result" ELSE "exception",
                             val |-> val]]
    ELSE fut

\* Whether SafeSet posts a callback.
Posts(f) == f # NoFuture /\ fut[f].st = "pending"

RECURSIVE FailAll(_, _)
\* connectionClosed's loop over futures.values(), run without interruption.
FailAll(q, ids) ==
    IF ids = {} THEN q
    ELSE LET i == Min(ids)
         IN FailAll(SafeSet(q, "set_exception", futures[i], ConnectionClosedError),
                    ids \ {i})

\* The queue after a whole connectionClosed() run on the calling thread.
ClosedQueue(q) ==
    SafeSet(FailAll(q, DOMAIN futures), "set_exception", positions_future,
            ConnectionClosedError)

\* An initialisation that always takes the clock's value.
MutInitializedCounter(seed) == seed

\* _initialize_req_id_counter: the counter it leaves, seed being the clock's.
InitializedCounter(seed) ==
    IF next_valid_order_id > 0 THEN next_valid_order_id ELSE seed

\* get_next_req_id: the id it returns (and leaves in the counter).
NextReqId(counter, seed) ==
    (IF counter = 0 THEN seed ELSE counter) + 1

\* --------------------------------------------------- the request facade
\* The accumulator a list-accumulating request registers.
ListAcc(items, obj) == [shape |-> "list", items |-> items, obj |-> obj]

\* The accumulator a dict-accumulating request registers.
MapAcc(items, obj) == [shape |-> "dict", items |-> items, obj |-> obj]

\* A formatting that keeps the positions of every security type.
MutFormatPositions(raw) ==
    [s \in {raw[i].symbol : i \in 1..Len(raw)} |->
       LET last == raw[CHOOSE i \in 1..Len(raw) :
                              raw[i].symbol = s
                              /\ \A j \in 1..Len(raw) : raw[j].symbol = s => j <= i]
       IN [position |-> last.position, averageCost |-> last.averageCost]]

\* get_portfolio_positions_async, lines 262-270: the stock positions by symbol.
FormatPositions(raw) ==
    LET stk == {i \in 1..Len(raw) : raw[i].secType = "STK"}
    IN [s \in {raw[i].symbol : i \in stk} |->
           LET last == raw[CHOOSE i \in stk : raw[i].symbol = s
                                  /\ \A j \in stk : raw[j].symbol = s => j <= i]
           IN [position |-> last.position, averageCost |-> last.averageCost]]

\* What the awaiting coroutine returns for a completed future.
Returned(k, v) ==
    IF k = "pos" /\ v.t = "result" THEN Result(FormatPositions(v.v), "fresh") ELSE v

\* The finally block of a facade operation of kind k with request id i:
\* get_portfolio_positions_async and get_account_summary_async pop nothing,
\* execute_order_async pops its future only.
FinallyFutures(k, i) == IF k \in {"pos", "acct"} THEN futures ELSE Pop(futures, i)
FinallyStore(k, i) ==
    IF k \in {"pos", "acct", "order"} THEN request_data_store
    ELSE Pop(request_data_store, i)
FinallyPositions(k) == IF k = "pos" THEN NoFuture ELSE positions_future

\* A facade operation called while is_connected() is false.
RequestNotConnected(c) ==
    /\ caller[c].pc = "idle"
    /\ ~is_connected
    /\ caller' = [caller EXCEPT ![c] = DoneCaller]
    /\ ret' = Returns(c, "any", 0, NotConnectedError, NoArrivals)
    /\ raised' = ""
    /\ UNCHANGED <<wvars, hvars, fut, loopQ, connPc, rt, lastIssued, arrived, nEvents>>

\* request_historical_data_async, request_contract_details_async and
\* request_sec_def_opt_params_async (with the underlying id given) up to
\* their await: take an id, register the slot, send the request.
RequestList(c, k) ==
    /\ UNCHANGED loop_running
    /\ caller[c].pc = "idle"
    /\ is_connected
    /\ k \in ListKinds
    /\ \E seed \in (IF req_id_counter = 0 THEN TimeSeeds ELSE {0}) :
         LET i == NextReqId(req_id_counter, seed)
         IN /\ i <= MaxId
            /\ req_id_counter' = i
            /\ lastIssued' = i
            /\ futures' = Put(futures, i, c)
            /\ request_data_store' = Put(request_data_store, i, ListAcc(<<>>, c))
            /\ fut' = [fut EXCEPT ![c] = [st |-> "pending", val |-> NoVal]]
            /\ caller' = [caller EXCEPT ![c] = [pc |-> "awaiting", kind |-> k, id |-> i]]
    /\ raised' = ""
    /\ ret' = NoRet
    /\ UNCHANGED <<positions_future, positions_data, next_valid_order_id,
                   initial_connection_made, connection_event, connection_error_code,
                   is_connected_flag, api_thread, clientConnected, loopQ, connPc,
                   rt, arrived, nEvents>>

\* get_account_summary_async and request_market_data_snapshot_async up to
\* their await: take an id, register the slot with an empty dict, send the
\* request.
RequestMap(c, k) ==
    /\ UNCHANGED loop_running
    /\ caller[c].pc = "idle"
    /\ is_connected
    /\ k \in MapKinds
    /\ \E seed \in (IF req_id_counter = 0 THEN TimeSeeds ELSE {0}) :
         LET i == NextReqId(req_id_counter, seed)
         IN /\ i <= MaxId
            /\ req_id_counter' = i
            /\ lastIssued' = i
            /\ futures' = Put(futures, i, c)
            /\ request_data_store' = Put(request_data_store, i, MapAcc(EmptyDict, c))
            /\ fut' = [fut EXCEPT ![c] = [st |-> "pending", val |-> NoVal]]
            /\ caller' = [caller EXCEPT ![c] = [pc |-> "awaiting", kind |-> k, id |-> i]]
    /\ raised' = ""
    /\ ret' = NoRet
    /\ UNCHANGED <<positions_future, positions_data, next_valid_order_id,
                   initial_connection_made, connection_event, connection_error_code,
                   is_connected_flag, api_thread, clientConnected, loopQ, connPc,
                   rt, arrived, nEvents>>

\* execute_order_async up to its await: take an id from the request-id
\* sequence, register the future (no accumulator), place the order.
RequestOrder(c) ==
    /\ UNCHANGED loop_running
    /\ caller[c].pc = "idle"
    /\ is_connected
    /\ \E seed \in (IF req_id_counter = 0 THEN TimeSeeds ELSE {0}) :
         LET i == NextReqId(req_id_counter, seed)
         IN /\ i <= MaxId
            /\ req_id_counter' = i
            /\ lastIssued' = i
            /\ futures' = Put(futures, i, c)
            /\ fut' = [fut EXCEPT ![c] = [st |-> "pending", val |-> NoVal]]
            /\ caller' = [caller EXCEPT ![c] =
                             [pc |-> "awaiting", kind |-> "order", id |-> i]]
    /\ raised' = ""
    /\ ret' = NoRet
    /\ UNCHANGED <<request_data_store, positions_future, positions_data,
                   next_valid_order_id, initial_connection_made, connection_event,
                   connection_error_code, is_connected_flag, api_thread,
                   clientConnected, loopQ, connPc, rt, arrived, nEvents>>

\* get_portfolio_positions_async up to its await.
RequestPositions(c) ==
    /\ caller[c].pc = "idle"
    /\ is_connected
    /\ positions_future' = c
    /\ positions_data' = <<>>
    /\ fut' = [fut EXCEPT ![c] = [st |-> "pending", val |-> NoVal]]
    /\ caller' = [caller EXCEPT ![c] = [pc |-> "awaiting", kind |-> "pos", id |-> 0]]
    /\ raised' = ""
    /\ ret' = NoRet
    /\ UNCHANGED <<futures, request_data_store, next_valid_order_id,
                   initial_connection_made, connection_event, connection_error_code,
                   hvars, loopQ, connPc, rt, lastIssued, arrived, nEvents>>

\* The awaiting coroutine resumes with the future's result or exception and
\* runs its finally block.
Resume(c) ==
    /\ caller[c].pc = "awaiting"
    /\ fut[c].st \in {"result", "exception"}
    /\ caller' = [caller EXCEPT ![c] = DoneCaller]
    /\ ret' = Returns(c, caller[c].kind, caller[c].id,
                      Returned(caller[c].kind, fut[c].val), arrived[c])
    /\ fut' = [fut EXCEPT ![c] = Spent(@)]
    /\ arrived' = [arrived EXCEPT ![c] = NoArrivals]
    /\ futures' = FinallyFutures(caller[c].kind, caller[c].id)
    /\ request_data_store' = FinallyStore(caller[c].kind, caller[c].id)
    /\ positions_future' = FinallyPositions(caller[c].kind)
    /\ raised' = ""
    /\ UNCHANGED <<positions_data, next_valid_order_id, initial_connection_made,
                   connection_event, connection_error_code, hvars, loopQ,
                   connPc, rt, lastIssued, nEvents>>

\* asyncio.wait_for's timeout: the future is cancelled, TimeoutError is
\* raised in the coroutine, the finally block runs.
Timeout(c) ==
    /\ caller[c].pc = "awaiting"
    /\ fut[c].st = "pending"
    /\ fut' = [fut EXCEPT ![c].st = "cancelled"]
    /\ caller' = [caller EXCEPT ![c] = DoneCaller]
    /\ ret' = Returns(c, caller[c].kind, caller[c].id, TimeoutError, arrived[c])
    /\ arrived' = [arrived EXCEPT ![c] = NoArrivals]
    /\ futures' = FinallyFutures(caller[c].kind, caller[c].id)
    /\ request_data_store' = FinallyStore(caller[c].kind, caller[c].id)
    /\ positions_future' = FinallyPositions(caller[c].kind)
    /\ raised' = ""
    /\ UNCHANGED <<positions_data, next_valid_order_id, initial_connection_made,
                   connection_event, connection_error_code, hvars, loopQ,
                   connPc, rt, lastIssued, nEvents>>

\* The event loop runs the oldest callback posted with call_soon_threadsafe:
\* future.set_result, future.set_exception or _initialize_req_id_counter.
\* Setting a future that is no longer pending raises InvalidStateError.
LoopRun ==
    /\ UNCHANGED loop_running
    /\ loopQ # <<>>
    /\ loopQ' = Tail(loopQ)
    /\ LET e == Head(loopQ)
       IN IF e.op = "init_counter"
          THEN /\ \E seed \in (IF next_valid_order_id > 0 THEN {0} ELSE TimeSeeds) :
                    req_id_counter' = InitializedCounter(seed)
               /\ raised' = ""
               /\ UNCHANGED fut
          ELSE IF fut[e.fut].st = "pending"
          THEN /\ fut' = [fut EXCEPT ![e.fut] =
                            [st |-> IF e.op = "set_result" THEN "result" ELSE "exception",
                             val |-> e.val]]
               /\ raised' = ""
               /\ UNCHANGED req_id_counter
          ELSE /\ raised' = "InvalidStateError"
               /\ UNCHANGED <<fut, req_id_counter>>
    /\ ret' = NoRet
    /\ UNCHANGED <<wvars, is_connected_flag, api_thread, clientConnected, caller,
                   connPc, rt, lastIssued, arrived, nEvents>>

\* ------------------------------------------- the receiver thread: callbacks
\* The gateway answers a request in the request's own kind: a data or end
\* event of kind k carries an id no request of another kind has used.
EventOk(k, i) ==
    \/ \E c \in Callers : caller[c].pc # "idle" /\ caller[c].id = i /\ caller[c].kind = k
    \/ \A c \in Callers : caller[c].id # i

\* A result already handed to set_result is the accumulator object itself:
\* appending to the accumulator changes every holder of that object.
Alias(val, obj, items) ==
    IF val.t = "result"
    THEN IF val.obj = obj THEN [val EXCEPT !.v = items] ELSE val
    ELSE val

\* The caller whose slot an event of kind k with request id i reaches.
Owner(k, i) ==
    IF k = "pos" THEN positions_future
    ELSE IF i \in DOMAIN futures THEN futures[i] ELSE NoFuture

\* The log after a data event, an end event, an allow-listed error and
\* another error reached the slot of caller f (of no caller when f is
\* NoFuture). The log keeps the first end event and the first error; first
\* tells whether no completion of the future was under way when it came.
LogData(f, v) ==
    [c \in Callers |-> IF c = f THEN [arrived[c] EXCEPT !.data = Append(@, v)]
                       ELSE arrived[c]]

LogEnd(f) ==
    [c \in Callers |-> IF c = f /\ arrived[c].endAt = -1
                       THEN [arrived[c] EXCEPT !.endAt = Len(arrived[c].data)]
                       ELSE arrived[c]]

LogIgnored(f) ==
    [c \in Callers |-> IF c = f THEN [arrived[c] EXCEPT !.ignored = TRUE] ELSE arrived[c]]

Untouched(f) == fut[f].st = "pending" /\ \A n \in 1..Len(loopQ) : loopQ[n].fut # f

LogError(f, i, code, msg) ==
    [c \in Callers |-> IF c = f /\ arrived[c].err = NoVal /\ fut[c].st = "pending"
                       THEN [arrived[c] EXCEPT !.err = [id |-> i, code |-> code, msg |-> msg,
                                                        first |-> Untouched(c)]]
                       ELSE arrived[c]]

\* The last conjunct of a gateway event: it is counted when its handler
\* changed something or raised, and the model delivers MaxEvents of those.
Counted ==
    /\ nEvents' = IF <<arrived, wvars, fut, loopQ>>' # <<arrived, wvars, fut, loopQ>>
                      \/ raised' # ""
                   THEN nEvents + 1 ELSE nEvents
    /\ nEvents' <= MaxEvents

\* An accumulator that takes the new element at its front.
MutAppended(i, v) ==
    LET old == IF i \in DOMAIN request_data_store THEN request_data_store[i]
               ELSE [shape |-> "list", items |-> <<>>, obj |-> "cb"]
    IN [shape |-> "list", items |-> <<v>> \o old.items, obj |-> old.obj]

\* The accumulator of id i as historicalData, contractDetails and
\* securityDefinitionOptionParameter leave it after appending v.
Appended(i, v) ==
    LET old == IF i \in DOMAIN request_data_store THEN request_data_store[i]
               ELSE ListAcc(<<>>, "cb")
    IN ListAcc(Append(old.items, v), old.obj)

\* A data handler that appends without looking the id up in futures.
MutListData(k, i, v) ==
    /\ rt.pc = "running"
    /\ EventOk(k, i)
    /\ arrived' = LogData(Owner(k, i), v)
    /\ LET new == Appended(i, v)
       IN /\ request_data_store' = Put(request_data_store, i, new)
          /\ fut' = [c \in Callers |->
                       [fut[c] EXCEPT !.val = Alias(@, new.obj, new.items)]]
          /\ loopQ' = [n \in 1..Len(loopQ) |->
                         [loopQ[n] EXCEPT !.val = Alias(@, new.obj, new.items)]]
    /\ raised' = ""
    /\ ret' = NoRet
    /\ UNCHANGED <<futures, positions_future, positions_data, next_valid_order_id,
                   initial_connection_made, connection_event, connection_error_code,
                   hvars, caller, connPc, rt, lastIssued>>
    /\ Counted

\* historicalData, contractDetails, securityDefinitionOptionParameter:
\* if reqId in self.futures, append to request_data_store[reqId]; a dict
\* stored there has no append, and the handler raises AttributeError.
ListData(k, i, v) ==
    /\ rt.pc = "running"
    /\ EventOk(k, i)
    /\ arrived' = LogData(Owner(k, i), v)
    /\ IF i \in DOMAIN futures /\ i \in DOMAIN request_data_store
          /\ request_data_store[i].shape = "dict"
       THEN /\ raised' = "AttributeError"
            /\ UNCHANGED <<request_data_store, fut, loopQ>>
       ELSE IF i \in DOMAIN futures
       THEN LET new == Appended(i, v)
            IN /\ request_data_store' = Put(request_data_store, i, new)
               /\ fut' = [c \in Callers |->
                            [fut[c] EXCEPT !.val = Alias(@, new.obj, new.items)]]
               /\ loopQ' = [n \in 1..Len(loopQ) |->
                              [loopQ[n] EXCEPT !.val = Alias(@, new.obj, new.items)]]
               /\ raised' = ""
       ELSE /\ raised' = ""
            /\ UNCHANGED <<request_data_store, fut, loopQ>>
    /\ ret' = NoRet
    /\ UNCHANGED <<futures, positions_future, positions_data, next_valid_order_id,
                   initial_connection_made, connection_event, connection_error_code,
                   hvars, caller, connPc, rt, lastIssued>>
    /\ Counted

HistoricalData(i, v) == ListData("hist", i, v)
ContractDetails(i, v) == ListData("cd", i, v)
SecurityDefinitionOptionParameter(i, v) == ListData("opt", i, v)

\* What request_data_store.get(reqId, []) returns.
StoreGet(i) ==
    IF i \in DOMAIN request_data_store
    THEN Result(request_data_store[i].items, request_data_store[i].obj)
    ELSE Result(<<>>, "fresh")

\* historicalDataEnd, contractDetailsEnd: if reqId in self.futures, complete
\* futures[reqId] with the accumulator.
ListEnd(k, i) ==
    /\ rt.pc = "running"
    /\ EventOk(k, i)
    /\ arrived' = LogEnd(Owner(k, i))
    /\ IF i \in DOMAIN futures
       THEN /\ loopQ' = SafeSet(loopQ, "set_result", futures[i], StoreGet(i))
            /\ fut' = SafeSetDirect("set_result", futures[i], StoreGet(i))
       ELSE UNCHANGED <<loopQ, fut>>
    /\ raised' = ""
    /\ ret' = NoRet
    /\ UNCHANGED <<wvars, hvars, caller, connPc, rt, lastIssued>>
    /\ Counted

HistoricalDataEnd(i) == ListEnd("hist", i)
ContractDetailsEnd(i) == ListEnd("cd", i)

\* securityDefinitionOptionParameterEnd: it hands the request id, an int, to
\* _safe_set_future_result in the place of the future; a non-zero id is
\* truthy and has no done(), so the call raises AttributeError.
SecurityDefinitionOptionParameterEnd(i) ==
    /\ rt.pc = "running"
    /\ EventOk("opt", i)
    /\ arrived' = LogEnd(Owner("opt", i))
    /\ raised' = IF i \in DOMAIN futures /\ i # 0 THEN "AttributeError" ELSE ""
    /\ ret' = NoRet
    /\ UNCHANGED <<wvars, hvars, fut, loopQ, caller, connPc, rt, lastIssued>>
    /\ Counted

\* A dict that keeps the value a key was first written with.
MutWritten(i, key, v) ==
    LET old == IF i \in DOMAIN request_data_store
                  /\ request_data_store[i].shape = "dict"
               THEN request_data_store[i]
               ELSE [shape |-> "dict", items |-> EmptyDict, obj |-> "cb"]
    IN [shape |-> "dict",
        items |-> IF key \in DOMAIN old.items THEN old.items ELSE Put(old.items, key, v),
        obj |-> old.obj]

\* The dict of id i as _store_tick_data and accountSummary leave it after
\* writing v under key: a stored value that is not a dict is replaced by a new
\* dict first.
Written(i, key, v) ==
    LET old == IF i \in DOMAIN request_data_store
                  /\ request_data_store[i].shape = "dict"
               THEN request_data_store[i]
               ELSE MapAcc(EmptyDict, "cb")
    IN MapAcc(Put(old.items, key, v), old.obj)

\* tickPrice / tickSize / tickString / tickGeneric and accountSummary: if
\* reqId in self.futures, write the value under its name in the dict of reqId.
StoreTickData(i, key, v) ==
    /\ rt.pc = "running"
    /\ arrived' = LogData(Owner("mkt", i), <<key, v>>)
    /\ IF i \in DOMAIN futures
       THEN LET new == Written(i, key, v)
            IN /\ request_data_store' = Put(request_data_store, i, new)
               /\ fut' = [c \in Callers |->
                            [fut[c] EXCEPT !.val = Alias(@, new.obj, new.items)]]
               /\ loopQ' = [n \in 1..Len(loopQ) |->
                              [loopQ[n] EXCEPT !.val = Alias(@, new.obj, new.items)]]
       ELSE UNCHANGED <<request_data_store, fut, loopQ>>
    /\ raised' = ""
    /\ ret' = NoRet
    /\ UNCHANGED <<futures, positions_future, positions_data, next_valid_order_id,
                   initial_connection_made, connection_event, connection_error_code,
                   hvars, caller, connPc, rt, lastIssued>>
    /\ Counted

\* The same handlers on an event of a request of kind k.
MapData(k, i, key, v) == EventOk(k, i) /\ StoreTickData(i, key, v)

TickPrice(i, key, v) == MapData("mkt", i, key, v)
AccountSummary(i, key, v) == MapData("acct", i, key, v)

\* What request_data_store.get(reqId, {}) returns.
MapGet(i) ==
    IF i \in DOMAIN request_data_store
    THEN Result(request_data_store[i].items, request_data_store[i].obj)
    ELSE Result(EmptyDict, "fresh")

\* tickSnapshotEnd, accountSummaryEnd: if reqId in self.futures, complete
\* futures[reqId] with the dict stored for reqId.
MapEnd(k, i) ==
    /\ rt.pc = "running"
    /\ EventOk(k, i)
    /\ arrived' = LogEnd(Owner(k, i))
    /\ IF i \in DOMAIN futures
       THEN /\ loopQ' = SafeSet(loopQ, "set_result", futures[i], MapGet(i))
            /\ fut' = SafeSetDirect("set_result", futures[i], MapGet(i))
       ELSE UNCHANGED <<loopQ, fut>>
    /\ raised' = ""
    /\ ret' = NoRet
    /\ UNCHANGED <<wvars, hvars, caller, connPc, rt, lastIssued>>
    /\ Counted

TickSnapshotEnd(i) == MapEnd("mkt", i)
AccountSummaryEnd(i) == MapEnd("acct", i)

\* Whether orderStatus completes the future on this status.
Resolving(status) == status \in TERMINAL_STATES \/ status = "Submitted"

\* The dict orderStatus completes the future with.
OrderResult(status, filled) == Result([status |-> status, filled |-> filled], "fresh")

\* orderStatus: if orderId in self.futures and the status is terminal or
\* Submitted, complete futures[orderId] with {status, filled}.
OrderStatus(i, status, filled) ==
    /\ rt.pc = "running"
    /\ EventOk("order", i)
    /\ arrived' = LogData(Owner("order", i), <<status, filled>>)
    /\ IF i \in DOMAIN futures /\ Resolving(status)
       THEN /\ loopQ' = SafeSet(loopQ, "set_result", futures[i], OrderResult(status, filled))
            /\ fut' = SafeSetDirect("set_result", futures[i], OrderResult(status, filled))
       ELSE UNCHANGED <<loopQ, fut>>
    /\ raised' = ""
    /\ ret' = NoRet
    /\ UNCHANGED <<wvars, hvars, caller, connPc, rt, lastIssued>>
    /\ Counted

\* position: kept while a positions future is set and not done.
Position(v) ==
    /\ rt.pc = "running"
    /\ arrived' = LogData(Owner("pos", 0), v)
    /\ IF Posts(positions_future)
       THEN positions_data' = Append(positions_data, v)
       ELSE UNCHANGED positions_data
    /\ raised' = ""
    /\ ret' = NoRet
    /\ UNCHANGED <<futures, request_data_store, positions_future, next_valid_order_id,
                   initial_connection_made, connection_event, connection_error_code,
                   hvars, fut, loopQ, caller, connPc, rt, lastIssued>>
    /\ Counted

\* positionEnd: complete the positions future with the collected list, then
\* drop the future and start a new list.
PositionEnd ==
    /\ rt.pc = "running"
    /\ arrived' = LogEnd(Owner("pos", 0))
    /\ loopQ' = SafeSet(loopQ, "set_result", positions_future,
                        Result(positions_data, "fresh"))
    /\ fut' = SafeSetDirect("set_result", positions_future,
                            Result(positions_data, "fresh"))
    /\ positions_future' = NoFuture
    /\ positions_data' = <<>>
    /\ raised' = ""
    /\ ret' = NoRet
    /\ UNCHANGED <<futures, request_data_store, next_valid_order_id,
                   initial_connection_made, connection_event, connection_error_code,
                   hvars, caller, connPc, rt, lastIssued>>
    /\ Counted

\* An error handler that fails every registered future, whatever the id.
MutError(i, code, msg) ==
    /\ rt.pc = "running"
    /\ loopQ' = FailAll(loopQ, DOMAIN futures)
    /\ raised' = ""
    /\ ret' = NoRet
    /\ UNCHANGED <<wvars, hvars, fut, caller, connPc, rt, lastIssued, arrived>>
    /\ Counted

\* error: an allow-listed code is logged; any other code fails the future
\* registered under reqId, if there is one and reqId is not -1.
Error(i, code, msg) ==
    /\ rt.pc = "running"
    /\ IF code \in IGNORABLE_ERROR_CODES
       THEN /\ arrived' = LogIgnored(Owner("any", i))
            /\ UNCHANGED <<loopQ, fut>>
       ELSE IF i # NO_ID /\ i \in DOMAIN futures
       THEN /\ arrived' = LogError(futures[i], i, code, msg)
            /\ loopQ' = SafeSet(loopQ, "set_exception", futures[i],
                                IBKRApiError(i, code, msg))
            /\ fut' = SafeSetDirect("set_exception", futures[i],
                                    IBKRApiError(i, code, msg))
       ELSE UNCHANGED <<loopQ, fut, arrived>>
    /\ raised' = ""
    /\ ret' = NoRet
    /\ UNCHANGED <<wvars, hvars, caller, connPc, rt, lastIssued>>
    /\ Counted

\* nextValidId: record the id, mark the connection made, set the connection
\* event, and post _initialize_req_id_counter to the loop.
NextValidId(orderId) ==
    /\ rt.pc = "running"
    /\ next_valid_order_id' = orderId
    /\ initial_connection_made' = TRUE
    /\ connection_error_code' = "None"
    /\ connection_event' = TRUE
    /\ loopQ' = Append(loopQ, [op |-> "init_counter", fut |-> NoFuture, val |-> NoVal])
    /\ raised' = ""
    /\ ret' = NoRet
    /\ UNCHANGED <<futures, request_data_store, positions_future, positions_data,
                   hvars, fut, caller, connPc, rt, lastIssued, arrived>>
    /\ Counted

\* ----------------------------------- the receiver thread: connectionClosed
\* connectionClosed entered on the receiver thread (lines 109-112):
\* initial_connection_made is cleared and the iteration over
\* futures.values() starts. by is "lib" when EClient delivers the callback
\* and "finally" when _client_thread_target calls it.
ClosingThread(by) ==
    [pc |-> "cc", by |-> by, left |-> DOMAIN futures,
     size |-> Cardinality(DOMAIN futures), old |-> rt.old]

\* Where the thread is once connectionClosed has returned or raised.
AfterClosed(by, ok) ==
    IF by = "lib" THEN [IdleThread EXCEPT !.pc = "ended", !.old = rt.old]
    ELSE IF ok THEN [IdleThread EXCEPT !.pc = "finally_end", !.old = rt.old]
    ELSE [IdleThread EXCEPT !.pc = "exited", !.old = rt.old]

\* EClient reports the connection closed on the receiver thread: the client
\* is disconnected by then, and the wrapper's connectionClosed starts.
ConnectionClosedCallback ==
    /\ UNCHANGED loop_running
    /\ rt.pc = "running"
    /\ clientConnected' = FALSE
    /\ initial_connection_made' = FALSE
    /\ rt' = ClosingThread("lib")
    /\ raised' = ""
    /\ ret' = NoRet
    /\ UNCHANGED <<futures, request_data_store, positions_future, positions_data,
                   next_valid_order_id, connection_event, connection_error_code,
                   req_id_counter, is_connected_flag, api_thread, fut, loopQ, caller,
                   connPc, lastIssued, arrived, nEvents>>

\* One step of "for future in self.futures.values()" (lines 112-114): the
\* dict iterator raises RuntimeError when the dict's size has changed; the
\* next future gets the connection-closed error; after the last one the
\* positions future gets it.
ConnectionClosedNext ==
    /\ rt.pc = "cc"
    /\ LET left == rt.left \cap DOMAIN futures
       IN IF Cardinality(DOMAIN futures) # rt.size
          THEN /\ raised' = "RuntimeError"
               /\ rt' = AfterClosed(rt.by, FALSE)
               /\ UNCHANGED <<loopQ, fut>>
          ELSE IF left # {}
          THEN /\ loopQ' = SafeSet(loopQ, "set_exception", futures[Min(left)],
                                   ConnectionClosedError)
               /\ fut' = SafeSetDirect("set_exception", futures[Min(left)],
                                       ConnectionClosedError)
               /\ rt' = [rt EXCEPT !.left = left \ {Min(left)}]
               /\ raised' = ""
          ELSE /\ loopQ' = SafeSet(loopQ, "set_exception", positions_future,
                                   ConnectionClosedError)
               /\ fut' = SafeSetDirect("set_exception", positions_future,
                                       ConnectionClosedError)
               /\ rt' = [rt EXCEPT !.pc = "cc_clear"]
               /\ raised' = ""
    /\ ret' = NoRet
    /\ UNCHANGED <<wvars, hvars, caller, connPc, lastIssued, arrived, nEvents>>

\* The end of connectionClosed (lines 115-118): both tables are cleared, the
\* positions slot is dropped.
ConnectionClosedClear ==
    /\ rt.pc = "cc_clear"
    /\ futures' = EmptyDict
    /\ request_data_store' = EmptyDict
    /\ positions_future' = NoFuture
    /\ positions_data' = <<>>
    /\ rt' = AfterClosed(rt.by, TRUE)
    /\ raised' = ""
    /\ ret' = NoRet
    /\ UNCHANGED <<next_valid_order_id, initial_connection_made, connection_event,
                   connection_error_code, hvars, fut, loopQ, caller, connPc, lastIssued, arrived, nEvents>>

\* ------------------------------------------- the receiver thread: its end
\* EClient.run() returns or raises: _client_thread_target reaches its
\* finally block.
RunEnds ==
    /\ rt.pc = "running"
    /\ rt' = [rt EXCEPT !.pc = "ended"]
    /\ raised' = ""
    /\ ret' = NoRet
    /\ UNCHANGED <<wvars, hvars, fut, loopQ, caller, connPc, lastIssued, arrived, nEvents>>

\* _client_thread_target's finally block, lines 97-101: with the client
\* still connected it calls connectionClosed; otherwise it clears the flag.
ThreadFinally ==
    /\ UNCHANGED loop_running
    /\ rt.pc = "ended"
    /\ IF clientConnected
       THEN /\ initial_connection_made' = FALSE
            /\ rt' = ClosingThread("finally")
            /\ UNCHANGED is_connected_flag
       ELSE /\ is_connected_flag' = FALSE
            /\ rt' = [rt EXCEPT !.pc = "exited"]
            /\ UNCHANGED initial_connection_made
    /\ raised' = ""
    /\ ret' = NoRet
    /\ UNCHANGED <<futures, request_data_store, positions_future, positions_data,
                   next_valid_order_id, connection_event, connection_error_code,
                   req_id_counter, api_thread, clientConnected, fut, loopQ, caller,
                   connPc, lastIssued, arrived, nEvents>>

\* Line 101 after connectionClosed returned in the finally block.
ThreadFinallyEnd ==
    /\ UNCHANGED loop_running
    /\ rt.pc = "finally_end"
    /\ is_connected_flag' = FALSE
    /\ rt' = [rt EXCEPT !.pc = "exited"]
    /\ raised' = ""
    /\ ret' = NoRet
    /\ UNCHANGED <<wvars, req_id_counter, api_thread, clientConnected, fut, loopQ,
                   caller, connPc, lastIssued, arrived, nEvents>>

\* ------------------------------------------------ connect and disconnect
\* A disconnect that runs connectionClosed but leaves the socket open.
MutClientDisconnect ==
    /\ clientConnected' = clientConnected
    /\ loopQ' = ClosedQueue(loopQ)
    /\ futures' = EmptyDict
    /\ request_data_store' = EmptyDict
    /\ positions_future' = NoFuture
    /\ positions_data' = <<>>

\* EClient.disconnect() called on the event loop with the client connected:
\* the client reports disconnected and calls the wrapper's connectionClosed
\* before it returns, so the whole of connectionClosed runs in this step.
ClientDisconnect ==
    /\ clientConnected' = FALSE
    /\ loopQ' = ClosedQueue(loopQ)
    /\ futures' = EmptyDict
    /\ request_data_store' = EmptyDict
    /\ positions_future' = NoFuture
    /\ positions_data' = <<>>

\* A connect() that resets the wrapper's connection state before it looks at
\* the connection.
MutConnectAlready ==
    /\ UNCHANGED loop_running
    /\ connPc = "idle"
    /\ is_connected
    /\ initial_connection_made' = FALSE
    /\ connection_event' = FALSE
    /\ connection_error_code' = "None"
    /\ ret' = ConnectReturned(TRUE)
    /\ raised' = ""
    /\ UNCHANGED <<futures, request_data_store, positions_future, positions_data,
                   next_valid_order_id, req_id_counter, is_connected_flag, api_thread,
                   clientConnected, fut, loopQ, caller, connPc, rt, lastIssued, arrived,
                   nEvents>>

\* connect() called while is_connected() (lines 118-122): it returns True.
ConnectAlready ==
    /\ UNCHANGED loop_running
    /\ connPc = "idle"
    /\ is_connected
    /\ req_id_counter' = IF req_id_counter = 0 /\ next_valid_order_id > 0
                         THEN InitializedCounter(0) ELSE req_id_counter
    /\ ret' = ConnectReturned(TRUE)
    /\ raised' = ""
    /\ UNCHANGED <<wvars, is_connected_flag, api_thread, clientConnected, fut, loopQ,
                   caller, connPc, rt, lastIssued, arrived, nEvents>>

\* The threads alive when connect() is about to start one: those counted in
\* rt.old and the one api_thread was last set to, if it has not finished.
StillAlive == rt.old + (IF ThreadAlive THEN 1 ELSE 0)

\* connect() up to its await (lines 124-146): the wrapper's connection state
\* is reset, EClient.connect is called (res is what it does: it connects, is
\* refused, or raises), the receiver thread is started unless one is alive.
\* A thread started with the client not connected finds nothing to read:
\* its run() returns at once.
ConnectStart(res) ==
    /\ UNCHANGED loop_running
    /\ connPc = "idle"
    /\ ~is_connected
    /\ initial_connection_made' = FALSE
    /\ next_valid_order_id' = 0
    /\ connection_event' = FALSE
    /\ is_connected_flag' = FALSE
    /\ lastIssued' = 0
    /\ IF res = "raise"
       THEN /\ connection_error_code' = "-1"
            /\ ret' = ConnectReturned(FALSE)
            /\ UNCHANGED <<clientConnected, api_thread, rt, connPc>>
       ELSE /\ connection_error_code' = "None"
            /\ clientConnected' = (res = "ok")
            /\ ret' = NoRet
            /\ connPc' = "waiting"
            /\ IF ~api_thread \/ ~ThreadAlive
               THEN /\ api_thread' = TRUE
                    /\ rt' = [RunningThread EXCEPT
                                !.pc = IF res = "ok" THEN "running" ELSE "ended",
                                !.old = StillAlive]
                    /\ StillAlive <= MaxOldThreads
               ELSE UNCHANGED <<api_thread, rt>>
    /\ raised' = ""
    /\ UNCHANGED <<futures, request_data_store, positions_future, positions_data,
                   req_id_counter, fut, loopQ, caller, arrived, nEvents>>

\* A test that takes a delivered handshake for a confirmed connection.
MutConfirmed ==
    /\ connection_error_code = "None"
    /\ next_valid_order_id > 0

\* Whether connect() takes the success branch at line 161.
Confirmed ==
    /\ connection_error_code = "None"
    /\ next_valid_order_id > 0
    /\ initial_connection_made

\* connect() after its await (lines 157-171): the connection event was set
\* or the wait timed out. On success the counter is initialised and the flag
\* set; otherwise _shutdown_client_and_thread disconnects the client.
ConnectResume ==
    /\ UNCHANGED loop_running
    /\ connPc = "waiting"
    /\ connPc' = "idle"
    /\ IF Confirmed
       THEN /\ req_id_counter' = InitializedCounter(0)
            /\ is_connected_flag' = TRUE
            /\ ret' = ConnectReturned(TRUE)
            /\ UNCHANGED <<futures, request_data_store, positions_future, positions_data,
                           initial_connection_made, clientConnected, loopQ>>
       ELSE /\ is_connected_flag' = FALSE
            /\ ret' = ConnectReturned(FALSE)
            /\ UNCHANGED req_id_counter
            /\ IF clientConnected
               THEN ClientDisconnect /\ initial_connection_made' = FALSE
               ELSE UNCHANGED <<futures, request_data_store, positions_future,
                                positions_data, initial_connection_made,
                                clientConnected, loopQ>>
    /\ raised' = ""
    /\ UNCHANGED <<next_valid_order_id, connection_event, connection_error_code,
                   api_thread, fut, caller, rt, lastIssued, arrived, nEvents>>

\* disconnect() up to the join of the receiver thread (lines 181-191), and
\* to its end when there is no live thread to join.
DisconnectCall ==
    /\ UNCHANGED loop_running
    /\ connPc = "idle"
    /\ IF clientConnected
       THEN ClientDisconnect
       ELSE UNCHANGED <<futures, request_data_store, positions_future, positions_data,
                        clientConnected, loopQ>>
    /\ IF api_thread /\ ThreadAlive
       THEN /\ connPc' = "joining"
            /\ initial_connection_made' = (initial_connection_made /\ ~clientConnected)
            /\ ret' = NoRet
            /\ UNCHANGED <<api_thread, is_connected_flag>>
       ELSE /\ api_thread' = FALSE
            /\ is_connected_flag' = FALSE
            /\ initial_connection_made' = FALSE
            /\ ret' = DisconnectReturned
            /\ UNCHANGED connPc
    /\ raised' = ""
    /\ UNCHANGED <<next_valid_order_id, connection_event, connection_error_code,
                   req_id_counter, fut, caller, rt, lastIssued, arrived, nEvents>>

\* disconnect() after the join returned, the thread having finished or the
\* 5 s having passed (lines 197-204).
DisconnectJoined ==
    /\ UNCHANGED loop_running
    /\ connPc = "joining"
    /\ connPc' = "idle"
    /\ api_thread' = FALSE
    /\ is_connected_flag' = FALSE
    /\ initial_connection_made' = FALSE
    /\ raised' = ""
    /\ ret' = DisconnectReturned
    /\ UNCHANGED <<futures, request_data_store, positions_future, positions_data,
                   next_valid_order_id, connection_event, connection_error_code,
                   req_id_counter, clientConnected, fut, loopQ, caller, rt,
                   lastIssued, arrived, nEvents>>


\* ------------------------------------------------ IBKRStockHandler
\* Python's None as a returned value.
None == Result(NoVal, "fresh")

\* get_stock_contract_details after its lookup: the contract of the first
\* contract details of a non-empty list; None for an empty list and for
\* every exception of the lookup, which it logs.
StockContractDetails(out) ==
    IF out.t = "result" /\ Len(out.v) > 0 THEN Result(out.v[1], "fresh") ELSE None

\* get_stock_contract_details called while is_connected() is false: it logs
\* the state and returns None.
StockDetailsNotConnected(c) ==
    /\ caller[c].pc = "idle"
    /\ ~is_connected
    /\ caller' = [caller EXCEPT ![c] = DoneCaller]
    /\ ret' = Returns(c, "stock", 0, None, NoArrivals)
    /\ raised' = ""
    /\ UNCHANGED <<wvars, hvars, fut, loopQ, connPc, rt, lastIssued, arrived, nEvents>>

\* get_stock_contract_details resumes from its
\* request_contract_details_async call, whose finally block has run.
StockDetailsResume(c) ==
    /\ caller[c].pc = "awaiting"
    /\ caller[c].kind = "cd"
    /\ fut[c].st \in {"result", "exception"}
    /\ caller' = [caller EXCEPT ![c] = DoneCaller]
    /\ ret' = Returns(c, "stock", caller[c].id, StockContractDetails(fut[c].val),
                      arrived[c])
    /\ fut' = [fut EXCEPT ![c] = Spent(@)]
    /\ arrived' = [arrived EXCEPT ![c] = NoArrivals]
    /\ futures' = FinallyFutures("cd", caller[c].id)
    /\ request_data_store' = FinallyStore("cd", caller[c].id)
    /\ raised' = ""
    /\ UNCHANGED <<positions_future, positions_data, next_valid_order_id,
                   initial_connection_made, connection_event, connection_error_code,
                   hvars, loopQ, connPc, rt, lastIssued, nEvents>>

\* The lookup of get_stock_contract_details times out.
StockDetailsTimeout(c) ==
    /\ caller[c].pc = "awaiting"
    /\ caller[c].kind = "cd"
    /\ fut[c].st = "pending"
    /\ fut' = [fut EXCEPT ![c].st = "cancelled"]
    /\ caller' = [caller EXCEPT ![c] = DoneCaller]
    /\ ret' = Returns(c, "stock", caller[c].id, StockContractDetails(TimeoutError),
                      arrived[c])
    /\ arrived' = [arrived EXCEPT ![c] = NoArrivals]
    /\ futures' = FinallyFutures("cd", caller[c].id)
    /\ request_data_store' = FinallyStore("cd", caller[c].id)
    /\ raised' = ""
    /\ UNCHANGED <<positions_future, positions_data, next_valid_order_id,
                   initial_connection_made, connection_event, connection_error_code,
                   hvars, loopQ, connPc, rt, lastIssued, nEvents>>


\* ------------------------------------------------ IBKROptionHandler
\* str.upper() on the exchange names a caller passes.
Upper(s) ==
    CASE s = "smart" -> "SMART"
      [] s = "cboe" -> "CBOE"
      [] OTHER -> s

common_prim_exchanges == <<"CBOE", "NASDAQOM", "ARCA", "AMEX", "ISE", "BOX">>
common_us_option_exchanges ==
    <<"CBOE", "AMEX", "PHLX", "ISE", "NASDAQOM", "BOX", "ARCA", "GEMINI", "MIAX",
      "PEARL", "EMERALD", "NASDAQBX">>

\* An attempt list whose direct attempts include the preferred exchange.
Mut_attempt_configs(pref) ==
    (IF pref # "" THEN <<[exchange |-> Upper(pref), primaryExchange |-> ""]>> ELSE <<>>)
    \o [n \in 1..Len(common_us_option_exchanges) |->
          [exchange |-> common_us_option_exchanges[n], primaryExchange |-> ""]]

\* _qualify_option_contract, lines 148-169: the contracts to try, by their
\* exchange and primaryExchange (a new Contract has primaryExchange "").
attempt_configs(pref) ==
    LET given == pref # ""
        c1 == IF given
              THEN <<[exchange |-> Upper(pref), primaryExchange |-> ""]>>
              ELSE <<>>
        c_smart == IF ~given \/ Upper(pref) = "SMART"
                   THEN [n \in 1..Len(common_prim_exchanges) |->
                           [exchange |-> "SMART",
                            primaryExchange |-> common_prim_exchanges[n]]]
                   ELSE <<>>
        c_specific == [n \in 1..Len(common_us_option_exchanges) |->
                         [exchange |-> common_us_option_exchanges[n],
                          primaryExchange |-> ""]]
        c_blank == IF given THEN <<[exchange |-> "", primaryExchange |-> ""]>> ELSE <<>>
    IN c1 \o c_smart
          \o SelectSeq(c_specific, LAMBDA a : ~(given /\ a.exchange = Upper(pref)))
          \o c_blank

\* What a request_contract_details_async call of the option handler comes
\* back with: a list of contract details (here their conIds), an error the
\* gateway sent for the request, the timeout, the loss of the connection.
LookupOutcomes ==
    {Result(<<>>, "fresh"), Result(<<0>>, "fresh"), Result(<<1>>, "fresh"),
     Result(<<2, 1>>, "fresh"), IBKRApiError(1, 200, "msg"), TimeoutError,
     ConnectionClosedError}

\* What the request an option operation ends with comes back with.
RequestOutcomes == {Result(<<1>>, "fresh"), IBKRApiError(1, 200, "msg"), TimeoutError}

\* What an option operation returns to caller c: its outcome, the log of the
\* requests it sent and of the lookups that came back, and what it was
\* called with.
OptionReturns(c, me, out, log) ==
    [op |-> me.kind, c |-> c, id |-> 0, out |-> out, log |-> log, sent |-> <<>>,
     symbol |-> me.symbol, pref |-> me.pref, conId |-> me.conId]

\* A lookup sent for attempt n, and its return with found contract details.
LookupSent(n, contract) == [call |-> "reqContractDetails", n |-> n, contract |-> contract]
LookupDone(n, out) ==
    [call |-> "done", n |-> n, found |-> IF out.t = "result" THEN Len(out.v) ELSE 0,
     first |-> IF out.t = "result" /\ Len(out.v) > 0 THEN out.v[1] ELSE -1]

\* A qualification that takes no attempt for a match.
MutQualified(out) == FALSE

\* _qualify_option_contract, line 180: if details_list.
Qualified(out) == out.t = "result" /\ Len(out.v) > 0

\* An error that does not name the instrument.
MutCouldNotQualify(k, symbol) ==
    IBKRApiError(0, 200, <<"Failed to qualify option contract", "">>)

\* The error of lines 209-212 and 234-237.
CouldNotQualify(k, symbol) ==
    IBKRApiError(0, 200,
                 <<IF k = "optsnap" THEN "Failed to qualify option contract for snapshot"
                   ELSE "Failed to qualify option contract for historical data",
                   symbol>>)

\* request_option_market_data_snapshot_async ("optsnap") and
\* request_historical_option_data_async ("opthist") called while connected,
\* up to the await of the first qualification attempt.
QualifyCall(c, k, symbol, pref) ==
    /\ caller[c].pc = "idle"
    /\ is_connected
    /\ caller' = [caller EXCEPT ![c] =
                    [pc |-> "qualifying", kind |-> k, id |-> 0, symbol |-> symbol,
                     pref |-> pref, conId |-> 0, n |-> 1,
                     log |-> <<LookupSent(1, attempt_configs(pref)[1])>>]]
    /\ raised' = ""
    /\ ret' = NoRet
    /\ UNCHANGED <<wvars, hvars, fut, loopQ, connPc, rt, lastIssued, arrived, nEvents>>

\* A qualification that gives up at the first attempt that finds nothing.
MutQualifyLookupReturns(c, out) ==
    /\ caller[c].pc = "qualifying"
    /\ LET me == caller[c]
           log == Append(me.log, LookupDone(me.n, out))
       IN IF Qualified(out) /\ out.v[1] # 0
          THEN /\ caller' = [caller EXCEPT ![c] =
                               [me EXCEPT !.pc = "requested",
                                          !.log = Append(log,
                                              [call |-> IF me.kind = "optsnap"
                                                        THEN "reqMktData"
                                                        ELSE "reqHistoricalData",
                                               conId |-> out.v[1]])]]
               /\ ret' = NoRet
          ELSE /\ caller' = [caller EXCEPT ![c] = DoneCaller]
               /\ ret' = OptionReturns(c, me, CouldNotQualify(me.kind, me.symbol), log)
    /\ raised' = ""
    /\ UNCHANGED <<wvars, hvars, fut, loopQ, connPc, rt, lastIssued, arrived, nEvents>>

\* The lookup of a qualification attempt comes back. A match ends the loop:
\* the operation sends its market-data or historical-data request for the
\* first contract found, or fails when that contract has no conId. Otherwise
\* the next attempt is sent; when none is left, or when the remaining
\* attempts all raise because the connection is gone, the operation fails.
QualifyLookupReturns(c, out) ==
    /\ caller[c].pc = "qualifying"
    /\ LET me == caller[c]
           log == Append(me.log, LookupDone(me.n, out))
           configs == attempt_configs(me.pref)
       IN IF Qualified(out)
          THEN IF out.v[1] # 0 /\ is_connected
               THEN /\ caller' = [caller EXCEPT ![c] =
                                    [me EXCEPT !.pc = "requested",
                                               !.log = Append(log,
                                                   [call |-> IF me.kind = "optsnap"
                                                             THEN "reqMktData"
                                                             ELSE "reqHistoricalData",
                                                    conId |-> out.v[1]])]]
                    /\ ret' = NoRet
               ELSE /\ caller' = [caller EXCEPT ![c] = DoneCaller]
                    /\ ret' = OptionReturns(c, me,
                                            IF out.v[1] = 0
                                            THEN CouldNotQualify(me.kind, me.symbol)
                                            ELSE NotConnectedError, log)
          ELSE IF me.n < Len(configs) /\ is_connected
               THEN /\ caller' = [caller EXCEPT ![c] =
                                    [me EXCEPT !.n = me.n + 1,
                                               !.log = Append(log,
                                                   LookupSent(me.n + 1, configs[me.n + 1]))]]
                    /\ ret' = NoRet
               ELSE /\ caller' = [caller EXCEPT ![c] = DoneCaller]
                    /\ ret' = OptionReturns(c, me,
                                            CouldNotQualify(me.kind, me.symbol), log)
    /\ raised' = ""
    /\ UNCHANGED <<wvars, hvars, fut, loopQ, connPc, rt, lastIssued, arrived, nEvents>>

\* The request an option operation ends with comes back: its result or its
\* error is what the operation returns or raises. The option-parameters
\* request comes back with an error only, its end event completing nothing
\* (SecurityDefinitionOptionParameterEnd).
OptionRequestReturns(c, out) ==
    /\ caller[c].pc = "requested"
    /\ caller[c].kind = "optparams" => out.t # "result"
    /\ caller' = [caller EXCEPT ![c] = DoneCaller]
    /\ ret' = OptionReturns(c, caller[c], out, caller[c].log)
    /\ raised' = ""
    /\ UNCHANGED <<wvars, hvars, fut, loopQ, connPc, rt, lastIssued, arrived, nEvents>>


\* The conId of the last contract found.
MutActualConId(out) == out.v[Len(out.v)]

\* request_sec_def_opt_params_async, line 62: details[0].contract.conId.
ActualConId(out) == out.v[1]

\* request_sec_def_opt_params_async called while connected: without an
\* underlying id it looks the underlying up, if it has a symbol, and fails
\* with code 321 if it has none; with an id it sends the option-parameters
\* request at once.
SecDefCall(c, symbol, conId) ==
    /\ caller[c].pc = "idle"
    /\ is_connected
    /\ LET me == [pc |-> "resolving", kind |-> "optparams", id |-> 0,
                  symbol |-> symbol, pref |-> "", conId |-> conId, n |-> 1,
                  log |-> <<>>]
       IN IF conId = 0 /\ symbol # ""
          THEN /\ caller' = [caller EXCEPT ![c] =
                               [me EXCEPT !.log = <<LookupSent(1, symbol)>>]]
               /\ ret' = NoRet
          ELSE IF conId = 0
          THEN /\ caller' = [caller EXCEPT ![c] = DoneCaller]
               /\ ret' = OptionReturns(c, me, IBKRApiError(0, 321, "msg"), <<>>)
          ELSE /\ caller' = [caller EXCEPT ![c] =
                               [me EXCEPT !.pc = "requested",
                                          !.log = <<[call |-> "reqSecDefOptParams",
                                                     conId |-> conId]>>]]
               /\ ret' = NoRet
    /\ raised' = ""
    /\ UNCHANGED <<wvars, hvars, fut, loopQ, connPc, rt, lastIssued, arrived, nEvents>>

\* The lookup of the underlying comes back: with a first contract that has a
\* conId the option-parameters request is sent for it; without one the call
\* fails with code 200; an IBKRApiError of the lookup is raised again, any
\* other exception is raised as an IBKRApiError with code 500.
SecDefLookupReturns(c, out) ==
    /\ caller[c].pc = "resolving"
    /\ LET me == caller[c]
           log == Append(me.log, LookupDone(1, out))
       IN IF out.t = "result" /\ Len(out.v) > 0 /\ ActualConId(out) # 0
          THEN /\ caller' = [caller EXCEPT ![c] =
                               [me EXCEPT !.pc = "requested",
                                          !.log = Append(log,
                                              [call |-> "reqSecDefOptParams",
                                               conId |-> ActualConId(out)])]]
               /\ ret' = NoRet
          ELSE /\ caller' = [caller EXCEPT ![c] = DoneCaller]
               /\ ret' = OptionReturns(c, me,
                                       IF out.t = "result"
                                       THEN IBKRApiError(0, 200, "msg")
                                       ELSE IF out.t = "IBKRApiError" THEN out
                                       ELSE IBKRApiError(0, 500, "msg"),
                                       log)
    /\ raised' = ""
    /\ UNCHANGED <<wvars, hvars, fut, loopQ, connPc, rt, lastIssued, arrived, nEvents>>


\* The parameter sets the gateway delivers in the model, by the value that
\* stands for them in the events: exchange, expirations and strikes.
ParamSet(v) ==
    IF v = 1
    THEN [exchange |-> "SMART", expirations |-> {250117}, strikes |-> {170, 175}]
    ELSE [exchange |-> "cboe", expirations |-> {250221, 250117}, strikes |-> {180, 170}]

RECURSIVE Sorted(_)
\* sorted(list(s)) for a set of numbers.
Sorted(S) == IF S = {} THEN <<>> ELSE <<Min(S)>> \o Sorted(S \ {Min(S)})

\* get_option_chain_strikes_async, lines 124-137: the strikes of the
\* parameter sets that pass the exchange filter and hold the expiration.
ChainStrikes(params, expiration, filter) ==
    Sorted(UNION {params[n].strikes :
                    n \in {m \in 1..Len(params) :
                             /\ filter = "" \/ Upper(params[m].exchange) = Upper(filter)
                             /\ expiration \in params[m].expirations}})

\* get_option_chain_strikes_async for expiration and filter comes back from
\* its request_sec_def_opt_params_async call (made with the underlying id),
\* whose wait has ended with a result, with an exception or by its timeout
\* and whose finally block has run: the exception is raised on, the strikes
\* of the result are returned.
ChainStrikesReturns(c, expiration, filter) ==
    /\ caller[c].pc = "awaiting"
    /\ caller[c].kind = "opt"
    /\ fut[c].st \in {"pending", "result", "exception"}
    /\ LET out == IF fut[c].st = "pending" THEN TimeoutError
                  ELSE IF fut[c].val.t = "result"
                  THEN Result(ChainStrikes([n \in 1..Len(fut[c].val.v) |->
                                               ParamSet(fut[c].val.v[n])],
                                           expiration, filter), "fresh")
                  ELSE fut[c].val
       IN ret' = [op |-> "strikes", c |-> c, id |-> caller[c].id, out |-> out,
                  log |-> arrived[c], sent |-> <<>>, expiration |-> expiration,
                  filter |-> filter]
    /\ fut' = [fut EXCEPT ![c] = IF @.st = "pending" THEN [@ EXCEPT !.st = "cancelled"]
                                 ELSE Spent(@)]
    /\ caller' = [caller EXCEPT ![c] = DoneCaller]
    /\ arrived' = [arrived EXCEPT ![c] = NoArrivals]
    /\ futures' = FinallyFutures("opt", caller[c].id)
    /\ request_data_store' = FinallyStore("opt", caller[c].id)
    /\ raised' = ""
    /\ UNCHANGED <<positions_future, positions_data, next_valid_order_id,
                   initial_connection_made, connection_event, connection_error_code,
                   hvars, loopQ, connPc, rt, lastIssued, nEvents>>

\* ------------------------------------------------------- the event loop
\* The program's event loop stops running (run_until_complete returned) or
\* runs again; self.loop.is_running() answers accordingly. The receiver
\* thread goes on delivering events meanwhile.
LoopRuns(on) ==
    /\ loop_running # on
    /\ loop_running' = on
    /\ raised' = ""
    /\ ret' = NoRet
    /\ UNCHANGED <<wvars, req_id_counter, is_connected_flag, api_thread, clientConnected,
                   fut, loopQ, caller, connPc, rt, lastIssued, arrived, nEvents>>

\* --------------------------------- the stock handler: the STK-only requests
\* A stock request that does not look at the contract's security type.
MutStockRequest(c, k, secType) ==
    IF ~is_connected THEN RequestNotConnected(c)
    ELSE \/ k = "hist" /\ RequestList(c, k)
         \/ k = "mkt" /\ RequestMap(c, k)

\* request_stock_historical_data_async (k = "hist") and
\* request_stock_market_data_snapshot_async (k = "mkt") up to their await:
\* ConnectionError when not connected, ValueError when the contract is not
\* a stock, else the base handler's operation.
StockRequest(c, k, secType) ==
    IF ~is_connected THEN RequestNotConnected(c)
    ELSE IF secType # "STK"
    THEN /\ caller[c].pc = "idle"
         /\ caller' = [caller EXCEPT ![c] = DoneCaller]
         /\ ret' = Returns(c, "stock", 0, ValueError, NoArrivals)
         /\ raised' = ""
         /\ UNCHANGED <<wvars, hvars, fut, loopQ, connPc, rt, lastIssued, arrived, nEvents>>
    ELSE \/ k = "hist" /\ RequestList(c, k)
         \/ k = "mkt" /\ RequestMap(c, k)

\* ------------------------------------------------------ utils/polygon_utils
\* Strings are sequences of one-character strings; a strike price is a whole
\* number of ten-thousandths.
\* A formatter that keeps the ticker's surrounding whitespace.
Mut_format_polygon_option_symbol(underlying_ticker, expiration_date_str, option_type, strike_price) ==
    LET upper(s) == [n \in 1..Len(s) |->
                       CASE s[n] = "a" -> "A" [] s[n] = "c" -> "C" [] s[n] = "p" -> "P"
                         [] s[n] = "x" -> "X" [] OTHER -> s[n]]
        n == strike_price \div 10
        L == CHOOSE l \in 1..12 : n < 10^l /\ (l = 1 \/ n >= 10^(l - 1))
        str == [j \in 1..L |->
                  <<"0", "1", "2", "3", "4", "5", "6", "7", "8", "9">>[((n \div 10^(L - j)) % 10) + 1]]
    IN IF \A m \in 1..Len(underlying_ticker) : underlying_ticker[m] = " "
       THEN ValueError
       ELSE IF ~(Len(expiration_date_str) = 6
                 /\ \A m \in 1..6 : expiration_date_str[m] \in
                       {"0", "1", "2", "3", "4", "5", "6", "7", "8", "9"})
       THEN ValueError
       ELSE IF upper(option_type) \notin {<<"C">>, <<"P">>} THEN ValueError
       ELSE IF strike_price <= 0 THEN ValueError
       ELSE Result(<<"O", ":">> \o upper(underlying_ticker) \o expiration_date_str
                   \o upper(option_type)
                   \o [j \in 1..(IF L < 8 THEN 8 - L ELSE 0) |-> "0"] \o str, "fresh")

\* format_polygon_option_symbol: upper is str.upper(), strip is str.strip(),
\* n is int(strike_price * 1000), str is str(n), completed by zfill(8).
format_polygon_option_symbol(underlying_ticker, expiration_date_str, option_type, strike_price) ==
    LET upper(s) == [n \in 1..Len(s) |->
                       CASE s[n] = "a" -> "A" [] s[n] = "c" -> "C" [] s[n] = "p" -> "P"
                         [] s[n] = "x" -> "X" [] OTHER -> s[n]]
        strip(s) ==
            LET kept == {m \in 1..Len(s) : s[m] # " "}
            IN IF kept = {} THEN <<>>
               ELSE SubSeq(s, CHOOSE a \in kept : \A b \in kept : a <= b,
                           CHOOSE a \in kept : \A b \in kept : a >= b)
        n == strike_price \div 10
        L == CHOOSE l \in 1..12 : n < 10^l /\ (l = 1 \/ n >= 10^(l - 1))
        str == [j \in 1..L |->
                  <<"0", "1", "2", "3", "4", "5", "6", "7", "8", "9">>[((n \div 10^(L - j)) % 10) + 1]]
    IN IF strip(underlying_ticker) = <<>> THEN ValueError
       ELSE IF ~(Len(expiration_date_str) = 6
                 /\ \A m \in 1..6 : expiration_date_str[m] \in
                       {"0", "1", "2", "3", "4", "5", "6", "7", "8", "9"})
       THEN ValueError
       ELSE IF upper(option_type) \notin {<<"C">>, <<"P">>} THEN ValueError
       ELSE IF strike_price <= 0 THEN ValueError
       ELSE Result(<<"O", ":">> \o strip(upper(underlying_ticker)) \o expiration_date_str
                   \o upper(option_type)
                   \o [j \in 1..(IF L < 8 THEN 8 - L ELSE 0) |-> "0"] \o str, "fresh")

\* The arguments format_polygon_option_symbol is called with: tickers (blank,
\* lower case, padded, with an inner space), expirations (6 digits, too
\* short, too long, not digits), option types, strikes in ten-thousandths
\* (170.0, 450.50, 1.2345, 0.0005, 0, -150.0, 100000.0).
PolygonInputs ==
    [ticker : {<<>>, <<" ">>, <<"a", "x">>, <<"A", "X">>, <<" ", "a">>, <<"a", " ">>,
               <<"a", " ", "x">>},
     expiration : {<<"2", "5", "0", "1", "1", "7">>, <<"2", "5", "0", "1", "1">>,
                   <<"2", "5", "0", "1", "1", "7", "0">>, <<"2", "5", "0", "1", "1", "x">>,
                   <<>>},
     type : {<<"C">>, <<"P">>, <<"c">>, <<"p">>, <<"x">>, <<>>, <<"C", "P">>},
     strike : {1700000, 4505000, 12345, 5, 0, -1500000, 1000000000}]

\* One call of format_polygon_option_symbol.
FormatOptionSymbol ==
    /\ ret.op = "polygon_args"
    /\ ret' = [op |-> "polygon", args |-> ret.args,
               out |-> format_polygon_option_symbol(ret.args.ticker, ret.args.expiration,
                                                    ret.args.type, ret.args.strike)]
    /\ UNCHANGED <<wvars, hvars, fut, loopQ, caller, connPc, rt, raised, lastIssued,
                   arrived, nEvents>>

\* ------------------------------------------------------ the specification
EventIds == Ids \cup {NO_ID}
ErrorMessages == {"msg"}

\* The steps every scenario shares: the loop running callers and posted
\* callbacks, error events and the handshake.
LoopSteps ==
    \/ \E c \in Callers : Resume(c)
    \/ \E c \in Callers : Timeout(c)
    \/ LoopRun

ThreadSteps ==
    \/ \E i \in EventIds, code \in ErrorCodes, m \in ErrorMessages : Error(i, code, m)
    \/ \E o \in OrderIds : NextValidId(o)

\* The connection is lost or run() ends: connectionClosed on the receiver
\* thread and the thread's finally block.
ThreadEnd ==
    \/ ConnectionClosedCallback
    \/ ConnectionClosedNext
    \/ ConnectionClosedClear
    \/ RunEnds
    \/ ThreadFinally
    \/ ThreadFinallyEnd

\* One connect() whose socket connection succeeds.
OneConnection ==
    \/ rt.pc = "none" /\ ConnectStart("ok")
    \/ ConnectResume

\* Request correlation on one connection that stays up: t1 asks for
\* historical data, t2 for contract details.
Next ==
    \/ OneConnection
    \/ RequestList("t1", "hist")
    \/ RequestList("t2", "cd")
    \/ LoopSteps
    \/ \E i \in Ids, v \in DataVals : HistoricalData(i, v)
    \/ \E i \in Ids : HistoricalDataEnd(i)
    \/ \E i \in Ids, v \in DataVals : ContractDetails(i, v)
    \/ \E i \in Ids : ContractDetailsEnd(i)
    \/ ThreadSteps

Spec == Init /\ [][Next]_vars

\* One connection that stays up, on which t1 asks for option-chain
\* parameters and t2 for historical data.
NextOpt ==
    \/ OneConnection
    \/ RequestList("t1", "opt")
    \/ RequestList("t2", "hist")
    \/ LoopSteps
    \/ \E i \in Ids, v \in DataVals : SecurityDefinitionOptionParameter(i, v)
    \/ \E i \in Ids : SecurityDefinitionOptionParameterEnd(i)
    \/ \E i \in Ids, v \in DataVals : HistoricalData(i, v)
    \/ \E i \in Ids : HistoricalDataEnd(i)
    \/ ThreadSteps

SpecOpt == Init /\ [][NextOpt]_vars

\* One connection that stays up, on which t1 asks for a market-data snapshot
\* and t2 for the account summary.
NextMap ==
    \/ OneConnection
    \/ RequestMap("t1", "mkt")
    \/ RequestMap("t2", "acct")
    \/ LoopSteps
    \/ \E i \in Ids, key \in TickKeys, v \in DataVals : TickPrice(i, key, v)
    \/ \E i \in Ids : TickSnapshotEnd(i)
    \/ \E i \in Ids, key \in TickKeys, v \in DataVals : AccountSummary(i, key, v)
    \/ \E i \in Ids : AccountSummaryEnd(i)
    \/ ThreadSteps

SpecMap == Init /\ [][NextMap]_vars

\* One connection that stays up, on which t1 places an order and t2 asks for
\* historical data.
NextOrder ==
    \/ OneConnection
    \/ RequestOrder("t1")
    \/ RequestList("t2", "hist")
    \/ LoopSteps
    \/ \E i \in Ids, st \in OrderStatuses, f \in FilledVals : OrderStatus(i, st, f)
    \/ \E i \in Ids : HistoricalDataEnd(i)
    \/ ThreadSteps

SpecOrder == Init /\ [][NextOrder]_vars

\* connect() and disconnect() called again and again, with no request in
\* flight: the connection is made, refused, lost or closed, the join of the
\* receiver thread returns when the thread has finished or on its timeout.
NextReconn ==
    \/ ConnectAlready
    \/ \E res \in {"ok", "refused"} : ConnectStart(res)
    \/ ConnectResume
    \/ DisconnectCall
    \/ DisconnectJoined
    \/ LoopRun
    \/ \E o \in OrderIds : NextValidId(o)
    \/ ThreadEnd

SpecReconn == Init /\ [][NextReconn]_vars

\* Starting ids a gateway that completes the handshake delivers.
StartingIds == {1, 2}

\* One connection that stays up, whose gateway delivers one positive starting
\* id (and may repeat it): t1 asks for historical data and t2 for contract
\* details.
NextIds ==
    \/ OneConnection
    \/ RequestList("t1", "hist")
    \/ RequestList("t2", "cd")
    \/ LoopSteps
    \/ \E o \in StartingIds : next_valid_order_id \in {0, o} /\ NextValidId(o)
    \/ \E i \in Ids : HistoricalDataEnd(i)
    \/ \E i \in Ids : ContractDetailsEnd(i)

SpecIds == Init /\ [][NextIds]_vars

\* One connection, which may be lost: t1 asks for a market-data snapshot or
\* for the account summary, t2 for the positions.
NextCancel ==
    \/ OneConnection
    \/ \E k \in MapKinds : RequestMap("t1", k)
    \/ RequestPositions("t2")
    \/ LoopSteps
    \/ \E i \in Ids : TickSnapshotEnd(i)
    \/ \E i \in Ids : AccountSummaryEnd(i)
    \/ PositionEnd
    \/ ThreadSteps
    \/ ThreadEnd

SpecCancel == Init /\ [][NextCancel]_vars


\* One connection that stays up: t1 calls get_stock_contract_details and t2
\* asks for historical data, each before or after the connection is made.
NextStock ==
    \/ OneConnection
    \/ StockDetailsNotConnected("t1")
    \/ RequestList("t1", "cd")
    \/ \E k \in {"hist", "mkt"}, secType \in {"STK", "OPT"} : StockRequest("t2", k, secType)
    \/ StockDetailsResume("t1")
    \/ StockDetailsTimeout("t1")
    \/ Resume("t2")
    \/ Timeout("t2")
    \/ LoopRun
    \/ \E i \in Ids, v \in DataVals : ContractDetails(i, v)
    \/ \E i \in Ids : ContractDetailsEnd(i)
    \/ \E i \in Ids : HistoricalDataEnd(i)
    \/ ThreadSteps

SpecStock == Init /\ [][NextStock]_vars


\* The operations of the option handler on one connection that stays up,
\* each request_contract_details_async call taken by what it comes back
\* with: t1 asks for the snapshot or the history of an option, which is
\* qualified first, or for the option-chain parameters of an underlying.
NextOption ==
    \/ OneConnection
    \/ \E o \in OrderIds : NextValidId(o)
    \/ LoopRun
    \/ RequestNotConnected("t1")
    \/ \E k \in {"optsnap", "opthist"}, symbol \in {"SPY", "AAPL"},
          pref \in {"", "SMART", "smart", "CBOE", "cboe", "NASDAQBX", "IEX"} :
         QualifyCall("t1", k, symbol, pref)
    \/ \E out \in LookupOutcomes : QualifyLookupReturns("t1", out)
    \/ \E symbol \in {"", "SPY"}, conId \in {0, 2} : SecDefCall("t1", symbol, conId)
    \/ \E out \in LookupOutcomes : SecDefLookupReturns("t1", out)
    \/ \E out \in RequestOutcomes : OptionRequestReturns("t1", out)

SpecOption == Init /\ [][NextOption]_vars


\* One connection that stays up, on which t1 asks for the strikes of an
\* option chain, giving the underlying id.
NextStrikes ==
    \/ OneConnection
    \/ RequestList("t1", "opt")
    \/ \E expiration \in {250117, 250221}, filter \in {"", "CBOE"} :
         ChainStrikesReturns("t1", expiration, filter)
    \/ LoopRun
    \/ \E i \in Ids, v \in DataVals : SecurityDefinitionOptionParameter(i, v)
    \/ \E i \in Ids : SecurityDefinitionOptionParameterEnd(i)
    \/ ThreadSteps

SpecStrikes == Init /\ [][NextStrikes]_vars


\* One connection that stays up, on which t1 and t2 ask for the positions.
NextPos ==
    \/ OneConnection
    \/ \E c \in Callers : RequestPositions(c)
    \/ LoopSteps
    \/ \E v \in PosVals : Position(v)
    \/ PositionEnd
    \/ ThreadSteps

SpecPos == Init /\ [][NextPos]_vars

\* One connection that stays up while the program's event loop stops and
\* runs again: t1 asks for historical data, t2 for the positions; the tasks
\* and the posted callbacks advance only while the loop runs.
NextLoop ==
    \/ loop_running /\ OneConnection
    \/ loop_running /\ RequestList("t1", "hist")
    \/ loop_running /\ RequestPositions("t2")
    \/ loop_running /\ LoopSteps
    \/ \E on \in BOOLEAN : LoopRuns(on)
    \/ \E i \in Ids, v \in DataVals : HistoricalData(i, v)
    \/ \E i \in Ids : HistoricalDataEnd(i)
    \/ PositionEnd
    \/ ThreadSteps

SpecLoop == Init /\ [][NextLoop]_vars

\* format_polygon_option_symbol applied to each of the arguments.
InitPolygon ==
    /\ \E args \in PolygonInputs : ret = [op |-> "polygon_args", args |-> args]
    /\ futures = EmptyDict
    /\ request_data_store = EmptyDict
    /\ positions_future = NoFuture
    /\ positions_data = <<>>
    /\ next_valid_order_id = 0
    /\ initial_connection_made = FALSE
    /\ connection_event = FALSE
    /\ connection_error_code = "None"
    /\ req_id_counter = 0
    /\ is_connected_flag = FALSE
    /\ api_thread = FALSE
    /\ clientConnected = FALSE
    /\ loop_running = TRUE
    /\ fut = [c \in Callers |-> [st |-> "none", val |-> NoVal]]
    /\ loopQ = <<>>
    /\ caller = [c \in Callers |-> IdleCaller]
    /\ connPc = "idle"
    /\ rt = IdleThread
    /\ raised = ""
    /\ lastIssued = 0
    /\ arrived = [c \in Callers |-> NoArrivals]
    /\ nEvents = 0

SpecPolygon == InitPolygon /\ [][FormatOptionSymbol]_vars

\* One connection that stays up, on which t1 asks for historical data and
\* the gateway delivers, besides the bars and their end, tick events under
\* any request id.
NextShape ==
    \/ OneConnection
    \/ RequestList("t1", "hist")
    \/ LoopSteps
    \/ \E i \in Ids, v \in DataVals : HistoricalData(i, v)
    \/ \E i \in Ids : HistoricalDataEnd(i)
    \/ \E i \in Ids, key \in TickKeys, v \in DataVals : StoreTickData(i, key, v)
    \/ ThreadSteps

SpecShape == Init /\ [][NextShape]_vars

\* The life of one connection, from connect() to disconnect() or to its
\* loss, while t1 asks for historical data and t2 for the positions.
NextConn ==
    \/ ConnectAlready
    \/ \E res \in {"ok", "refused", "raise"} : rt.pc = "none" /\ ConnectStart(res)
    \/ ConnectResume
    \/ DisconnectCall
    \/ DisconnectJoined
    \/ \E c \in Callers : RequestNotConnected(c)
    \/ RequestList("t1", "hist")
    \/ RequestPositions("t2")
    \/ LoopSteps
    \/ ThreadSteps
    \/ ThreadEnd

SpecConn == Init /\ [][NextConn]_vars

\* One connection, which may be lost, with the event loop running: t1 asks
\* for historical data and t2 for the positions; a posted callback is run, a
\* caller whose future is done resumes, a pending wait times out.
NextLive ==
    \/ OneConnection
    \/ RequestList("t1", "hist")
    \/ RequestPositions("t2")
    \/ LoopSteps
    \/ \E i \in Ids : HistoricalDataEnd(i)
    \/ PositionEnd
    \/ ThreadSteps
    \/ ThreadEnd

Fairness ==
    /\ WF_vars(LoopRun)
    /\ \A c \in Callers : WF_vars(Resume(c)) /\ WF_vars(Timeout(c))

SpecLive == Init /\ [][NextLive]_vars /\ Fairness

\* ------------------------------------------------------------ properties
\* A caller's facade operation returned in the last step.
CallerReturned == ret.op \in Kinds
\* Caller c registered a list-accumulating request and is waiting for it.
AwaitsList(c) == caller[c].pc = "awaiting" /\ caller[c].kind \in ListKinds

\* C1: a slot is completed at most once. A completion that reaches a future
\* which already has its result or exception, or was cancelled by the caller's
\* timeout, is dropped: running it raises nothing.
C1_LateCompletionIsNoOp == raised # "InvalidStateError"

\* C4: at every moment at most one pending request holds a given id: two
\* callers waiting for list-accumulating requests never wait under the same
\* request id.
C4_OnePendingRequestPerId ==
    \A c1, c2 \in Callers :
        (c1 # c2 /\ AwaitsList(c1) /\ AwaitsList(c2)) => caller[c1].id # caller[c2].id

\* C5: within one connection the ids get_next_req_id returns are strictly
\* increasing: each request registered takes an id greater than the last id
\* returned on this connection.
C5_IdsStrictlyIncrease ==
    [][\A c \in Callers :
          (caller[c].pc = "idle" /\ AwaitsList(c)') => caller'[c].id > lastIssued]_vars

\* C7: an error event whose code is one of 10167, 2104, 2106, 2108, 2158,
\* whatever request id it carries, leaves futures and request_data_store as
\* they were, completes no future and posts no completion: no step that
\* changes one of these is such an error event.
C7_AllowListedErrorFailsNothing ==
    [][(<<futures, request_data_store, positions_future, fut, loopQ>>'
            # <<futures, request_data_store, positions_future, fut, loopQ>>)
          => \A i \in EventIds, m \in ErrorMessages :
                 \A code \in {10167, 2104, 2106, 2108, 2158} : ~Error(i, code, m)]_vars

\* C7, its case: a request returned its result although an allow-listed
\* error carrying its id arrived while it waited.
C7_ResolvedAfterIgnoredError ==
    CallerReturned /\ ret.out.t = "result" /\ ret.log.ignored

\* The IBKRApiError the error event logged in e makes.
ErrorOf(e) == [t |-> "IBKRApiError", reqId |-> e.id, code |-> e.code, message |-> e.msg]

\* C8 as stated: a caller for whose slot an error with a code outside the
\* allow-list arrived while its future was pending returns with the
\* IBKRApiError of that event.
C8_ErrorAlwaysReceived ==
    (CallerReturned /\ ret.log.err # NoVal) => ret.out = ErrorOf(ret.log.err)

\* C8, amended: when such an error arrives for a slot whose future is pending
\* and has no completion under way, the caller returns with the IBKRApiError
\* carrying the event's request id (its own), code and message, unless its
\* timeout comes first; and an IBKRApiError of a request is only ever returned
\* to the caller for whose slot that error event arrived.
C8_ErrorFailsItsSlot ==
    /\ (CallerReturned /\ ret.log.err # NoVal /\ ret.log.err.first)
          => ret.out \in {ErrorOf(ret.log.err), TimeoutError}
    /\ (CallerReturned /\ ret.out.t = "IBKRApiError" /\ ret.out # ConnectionClosedError)
          => /\ ret.log.err # NoVal
             /\ ret.out = ErrorOf(ret.log.err)
             /\ ret.out.reqId = ret.id

\* C8, its case: one caller returned the IBKRApiError of an error event with
\* code 200 while the other caller's request is still pending, untouched.
C8_OneSlotFailed ==
    /\ CallerReturned /\ ret.out.t = "IBKRApiError" /\ ret.out.code = 200
    /\ \E c \in Callers : c # ret.c /\ AwaitsList(c) /\ Untouched(c)

\* C9: a historical-data or contract-details request that returns a list
\* had its end event, and when no data event followed the end event the list
\* is the data events that reached its slot, in arrival order, and nothing
\* else.
C9_ListInArrivalOrder ==
    (CallerReturned /\ ret.op \in {"hist", "cd"} /\ ret.out.t = "result")
        => /\ ret.log.endAt # -1
           /\ Len(ret.log.data) = ret.log.endAt => ret.out.v = ret.log.data

\* C9, its case: a request returned the two different data events that
\* arrived for it, in their order.
C9_TwoElementList ==
    /\ CallerReturned /\ ret.op \in {"hist", "cd"} /\ ret.out.t = "result"
    /\ ret.log.endAt = 2
    /\ ret.out.v = ret.log.data
    /\ ret.out.v[1] # ret.out.v[2]

\* The completion set_result(v) posted for caller f's future.
SetResult(f, v) == [op |-> "set_result", fut |-> f, val |-> v]

\* C10: when securityDefinitionOptionParameterEnd arrives for the id of a
\* registered option-parameters request whose future is pending, the future
\* is resolved with the list accumulated for that id: the completion is
\* posted to the loop.
C10_EndResolvesWithList ==
    [][\A i \in Ids :
          (/\ SecurityDefinitionOptionParameterEnd(i)
           /\ i \in DOMAIN futures
           /\ caller[Owner("opt", i)].kind = "opt"
           /\ Posts(futures[i]))
          => loopQ' = Append(loopQ, SetResult(futures[i], StoreGet(i)))]_vars

\* C2: when disconnect() returns, the receiver thread having finished,
\* futures and request_data_store are empty and no caller is left waiting on
\* a future that nothing has completed or is about to complete.
C2_DisconnectFailsAllPending ==
    (ret.op = "disconnect" /\ ~ThreadAlive)
        => /\ DOMAIN futures = {}
           /\ DOMAIN request_data_store = {}
           /\ \A c \in Callers : caller[c].pc = "awaiting" => ~Untouched(c)

\* C3: connectionClosed removes no slot it has not failed: when it clears the
\* tables, every registered future, and the positions future if set, is
\* done or has its completion posted.
C3_CloseFailsWhatItRemoves ==
    [][(rt.pc = "cc_clear" /\ rt'.pc # "cc_clear")
          => /\ \A i \in DOMAIN futures : ~Untouched(futures[i])
             /\ positions_future # NoFuture => ~Untouched(positions_future)]_vars

\* C6: every facade operation that registered a slot returns to its
\* caller, and returns once: a caller that is waiting is eventually done, and
\* a caller that is done stays done.
C6_EveryRequestReturnsOnce ==
    /\ \A c \in Callers : (caller[c].pc = "awaiting") ~> (caller[c].pc = "done")
    /\ [][\A c \in Callers : caller[c].pc = "done" => caller'[c].pc = "done"]_vars

\* C6, its case: a caller that registered a slot and lost the connection
\* while it waited has returned, with the connection-closed error.
C6_Returned ==
    /\ CallerReturned /\ ret.id # 0
    /\ ret.out = ConnectionClosedError

\* The value the last write of key in the log of tick/tag events left.
LastWritten(log, key) ==
    LET at == {n \in 1..Len(log) : log[n][1] = key}
    IN log[CHOOSE n \in at : \A m \in at : m <= n][2]

\* C11: a market-data-snapshot or account-summary request that returns a map
\* had its terminal event, and the map holds every key a tick or tag event
\* wrote for its id before the terminal event, each with the value written
\* for it last.
C11_MapHoldsLastWritten ==
    (CallerReturned /\ ret.op \in MapKinds /\ ret.out.t = "result")
        => /\ ret.log.endAt # -1
           /\ \A n \in 1..ret.log.endAt :
                 /\ ret.log.data[n][1] \in DOMAIN ret.out.v
                 /\ ret.out.v[ret.log.data[n][1]]
                        = LastWritten(ret.log.data, ret.log.data[n][1])

\* C11, its case: a request returned the map after the same key was written
\* twice, with different values, before the terminal event.
C11_KeyOverwritten ==
    /\ CallerReturned /\ ret.op \in MapKinds /\ ret.out.t = "result"
    /\ ret.log.endAt = 2
    /\ ret.log.data[1][1] = ret.log.data[2][1]
    /\ ret.log.data[1][2] # ret.log.data[2][2]

\* The first status in the log of orderStatus events that completes the
\* future, as the dict delivered for it (NoVal when there is none).
RECURSIVE FirstResolving(_)
FirstResolving(log) ==
    IF log = <<>> THEN NoVal
    ELSE IF Resolving(Head(log)[1]) THEN OrderResult(Head(log)[1], Head(log)[2])
    ELSE FirstResolving(Tail(log))

\* C12: an execute_order_async call that returns a result returns the
\* {status, filled} of the first orderStatus for its order id whose status is
\* Filled, Cancelled, ApiCancelled, Inactive or Submitted: no earlier status
\* outside that set and no later status is what it returns.
C12_FirstResolvingStatus ==
    (CallerReturned /\ ret.op = "order" /\ ret.out.t = "result")
        => ret.out = FirstResolving(ret.log.data)

C14_FailedConnectDisconnects ==
    /\ []((ret.op = "connect" /\ ~ret.ok) => (~clientConnected /\ ~is_connected))
    /\ [][(~is_connected /\ is_connected') => \A o \in OrderIds : ~NextValidId(o)]_vars

\* C14, its case: connect() failed after the receiver thread was started,
\* the thread then delivered a handshake with a positive id, and
\* is_connected() is false.
C14_HandshakeAfterFailure ==
    /\ connPc = "idle" /\ api_thread /\ rt.pc = "running"
    /\ ~is_connected_flag /\ ~clientConnected
    /\ initial_connection_made /\ next_valid_order_id > 0
    /\ ~is_connected

\* C15: while connect() waits for the handshake and no nextValidId has come,
\* no error event can arrive without being recorded as the connection's
\* terminal error and setting the connection event connect() waits on.
C15_ErrorEndsTheAttempt ==
    (connPc = "waiting" /\ rt.pc = "running" /\ ~initial_connection_made)
        => ~ENABLED (\E code \in ErrorCodes \ IGNORABLE_ERROR_CODES, m \in ErrorMessages :
                        /\ Error(NO_ID, code, m)
                        /\ ~(connection_error_code' # "None" /\ connection_event'))

\* C16: at most one receiver thread is alive at any time.
C16_OneReceiverThread == StillAlive <= 1

\* C17: is_connected() is false in every state in which the receiver thread
\* has exited, whatever the socket client reports, and false once
\* disconnect() has returned or connectionClosed has been delivered, until a
\* connect() returns true.
C17_NoThreadNotConnected ==
    /\ [](rt.pc = "exited" => ~is_connected)
    /\ [](ret.op = "disconnect" => ~is_connected)
    /\ [][ConnectionClosedCallback => ~is_connected']_vars
    /\ [][(~is_connected /\ is_connected') => (ret'.op = "connect" /\ ret'.ok)]_vars

\* C18: when connect() has returned true the id counter equals the starting
\* id nextValidId delivered; the first id issued on the connection is that
\* starting id plus one, and every id issued on it is greater than the
\* starting id.
C18_CounterSeededFromGateway ==
    /\ []((ret.op = "connect" /\ ret.ok)
            => (next_valid_order_id > 0 /\ req_id_counter = next_valid_order_id))
    /\ [][\A c \in Callers :
            (caller[c].pc = "idle" /\ caller'[c].pc = "awaiting")
               => /\ caller'[c].id > next_valid_order_id
                  /\ lastIssued = 0 => caller'[c].id = next_valid_order_id + 1]_vars

\* C18, its case: on a connection whose starting id is 2 the first request
\* was issued id 3.
C18_FirstIdAfterStart ==
    /\ next_valid_order_id = 2 /\ lastIssued = 3
    /\ \E c \in Callers : caller[c].pc = "awaiting" /\ caller[c].id = 3
    /\ \A c \in Callers : caller[c].pc # "done"

\* C19: when a facade operation that took a request id returns or raises,
\* that id is in neither futures nor request_data_store; and when no
\* operation is waiting both tables are empty.
C19_SlotUnregisteredAtReturn ==
    /\ (CallerReturned /\ ret.id # 0)
          => (ret.id \notin DOMAIN futures /\ ret.id \notin DOMAIN request_data_store)
    /\ (\A c \in Callers : caller[c].pc # "awaiting")
          => (DOMAIN futures = {} /\ DOMAIN request_data_store = {})

\* C20: a market-data-snapshot, account-summary or positions operation that
\* sent its request and returns or raises, on a result, a timeout, an
\* IBKRApiError or the connection-closed error, has handed the client exactly
\* one cancel, the one matching its request: cancelMktData(id),
\* cancelAccountSummary(id), cancelPositions(). (A caller runs one operation
\* and returns once, so the cancel is sent once per request.)
C20_CancelSentOnEveryExit ==
    /\ (CallerReturned /\ ret.op = "mkt")
          => ret.sent = <<[call |-> "cancelMktData", id |-> ret.id]>>
    /\ (CallerReturned /\ ret.op = "acct")
          => ret.sent = <<[call |-> "cancelAccountSummary", id |-> ret.id]>>
    /\ (CallerReturned /\ ret.op = "pos")
          => ret.sent = <<[call |-> "cancelPositions", id |-> 0]>>

\* C20, its case: a request that had been sent ended on the connection-closed
\* error and its cancel was sent.
C20_CancelAfterConnectionClosed ==
    /\ CallerReturned /\ ret.op \in {"mkt", "acct", "pos"}
    /\ ret.out = ConnectionClosedError
    /\ Len(ret.sent) = 1


\* C21: a facade operation called while is_connected() is false fails with
\* the not-connected error and leaves the id counter, futures and
\* request_data_store as they were.
C21_NotConnectedCallFails ==
    [][\A c \in Callers :
         (~is_connected /\ caller[c].pc = "idle" /\ caller'[c].pc # "idle")
         => /\ ret'.out = NotConnectedError
            /\ UNCHANGED <<req_id_counter, futures, request_data_store>>]_vars


\* C22: a data or end event whose id is not registered in futures (never
\* registered, or unregistered by a caller that timed out or returned) is
\* dropped: it changes nothing in futures, in request_data_store, in any
\* caller's future or in the completions posted to the loop, and it raises
\* nothing. Stated on every step: a step that changes one of these, or
\* raises, is not such an event.
C22_UnregisteredEventDropped ==
    [][\A i \in Ids :
         (/\ i \notin DOMAIN futures
          /\ \/ <<wvars, fut, loopQ>>' # <<wvars, fut, loopQ>>
             \/ raised' # "")
         => ~(\/ \E v \in DataVals : HistoricalData(i, v) \/ ContractDetails(i, v)
              \/ HistoricalDataEnd(i)
              \/ ContractDetailsEnd(i))]_vars

\* t2's contract-details request timed out and unregistered its id, which
\* the gateway still answers, while t1's historical-data request is
\* registered and has collected a bar.
C22_LateEventAfterTimeout ==
    /\ caller["t2"].pc = "done" /\ fut["t2"].st = "cancelled"
    /\ caller["t1"].pc = "awaiting"
    /\ request_data_store[caller["t1"].id].items # <<>>
    /\ \E i \in Ids :
         /\ i \notin DOMAIN futures
         /\ i \notin DOMAIN request_data_store
         /\ i <= req_id_counter
         /\ ENABLED (ContractDetails(i, 1) /\ nEvents' = nEvents)
         /\ ENABLED (ContractDetailsEnd(i) /\ nEvents' = nEvents)


\* The lookups in a log of an option operation, in the order they were sent.
Lookups(log) == SelectSeq(log, LAMBDA e : e.call = "reqContractDetails")

\* C24: the qualification attempt list is, in order, the preferred exchange
\* if one is given; one SMART attempt per primary-exchange hint if no
\* preference is given or the preference is SMART; one direct attempt per known
\* options exchange except the preferred one; one blank-exchange attempt if
\* and only if a preference was given. It has 18 attempts with no preference,
\* 20 with SMART, 13 with a listed exchange, and no two attempts have the
\* same exchange and primaryExchange.
C24_AttemptList ==
    \A c \in Callers :
      caller[c].pc = "qualifying" =>
        LET pref == caller[c].pref
            up == Upper(pref)
            a == attempt_configs(pref)
            given == IF pref # "" THEN 1 ELSE 0
            smart == IF pref = "" \/ up = "SMART" THEN Len(common_prim_exchanges) ELSE 0
            others == SelectSeq(common_us_option_exchanges,
                                LAMBDA x : pref = "" \/ x # up)
            listed == \E n \in 1..Len(common_us_option_exchanges) :
                         common_us_option_exchanges[n] = up
        IN /\ Len(a) = given + smart + Len(others) + given
           /\ pref # "" => a[1] = [exchange |-> up, primaryExchange |-> ""]
           /\ \A n \in 1..smart :
                a[given + n] = [exchange |-> "SMART",
                                primaryExchange |-> common_prim_exchanges[n]]
           /\ \A n \in 1..Len(others) :
                a[given + smart + n] = [exchange |-> others[n], primaryExchange |-> ""]
           /\ pref # "" => a[Len(a)] = [exchange |-> "", primaryExchange |-> ""]
           /\ pref = "" => Len(a) = 18
           /\ up = "SMART" => Len(a) = 20
           /\ listed => Len(a) = 13
           /\ \A m, n \in 1..Len(a) : m # n => a[m] # a[n]
           /\ Lookups(caller[c].log)[caller[c].n].contract = a[caller[c].n]

\* The option is being qualified with the preference "smart" and the last of
\* the 20 attempts, the blank exchange, has been sent.
C24_SmartPreferenceLastAttempt ==
    /\ caller["t1"].pc = "qualifying"
    /\ caller["t1"].pref = "smart"
    /\ caller["t1"].n = 20
    /\ Lookups(caller["t1"].log)[20].contract = [exchange |-> "", primaryExchange |-> ""]


\* The qualification that is under way or has just ended: its log and the
\* exchange preference it was called with.
Qualification ==
    IF \E c \in Callers : /\ caller[c].pc \in {"qualifying", "requested"}
                          /\ caller[c].kind \in {"optsnap", "opthist"}
    THEN LET c == CHOOSE x \in Callers : /\ caller[x].pc \in {"qualifying", "requested"}
                                        /\ caller[x].kind \in {"optsnap", "opthist"}
         IN [on |-> TRUE, log |-> caller[c].log, pref |-> caller[c].pref]
    ELSE IF ret.op \in {"optsnap", "opthist"}
    THEN [on |-> TRUE, log |-> ret.log, pref |-> ret.pref]
    ELSE [on |-> FALSE, log |-> <<>>, pref |-> ""]

\* C23: the lookups of a qualification are sent in attempt-list order, each
\* one after the one before it has come back without a match; after the
\* first lookup that comes back with a match no further lookup is sent, the
\* first contract it found is the one the operation goes on with, and when
\* that lookup is the k-th attempt exactly k lookups were sent.
C23_AttemptsSequentialFirstMatch ==
    LET L == Qualification.log
        K == Lookups(L)
        a == attempt_configs(Qualification.pref)
    IN /\ \A j \in 1..Len(K) : K[j].n = j /\ K[j].contract = a[j]
       /\ \A p \in 1..Len(L) :
            (L[p].call = "reqContractDetails" /\ L[p].n > 1)
            => (/\ L[p - 1].call = "done"
                /\ L[p - 1].n = L[p].n - 1
                /\ L[p - 1].found = 0)
       /\ \A p \in 1..Len(L) :
            (L[p].call = "done" /\ L[p].found > 0)
            => (/\ Len(K) = L[p].n
                /\ \A q \in (p + 1)..Len(L) :
                     /\ L[q].call \in {"reqMktData", "reqHistoricalData"}
                     /\ L[q].conId = L[p].first)

\* Only the third candidate matched, with two contracts: three lookups were
\* sent and the snapshot is requested for the first of the two.
C23_ThirdCandidateMatches ==
    /\ caller["t1"].pc = "requested"
    /\ Len(Lookups(caller["t1"].log)) = 3
    /\ caller["t1"].log[6] = [call |-> "done", n |-> 3, found |-> 2, first |-> 2]
    /\ caller["t1"].log[7] = [call |-> "reqMktData", conId |-> 2]

\* C25: when no qualification attempt comes back with a match, the option
\* snapshot and historical operations fail with the could-not-qualify error
\* (code 200) that names the instrument, and the operation has sent no
\* market-data and no historical-data request.
C25_NoMatchFailsNothingSent ==
    LET L == Qualification.log
        unmatched == \A p \in 1..Len(L) : L[p].call = "done" => L[p].found = 0
    IN (Qualification.on /\ unmatched)
       => /\ \A p \in 1..Len(L) : L[p].call \notin {"reqMktData", "reqHistoricalData"}
          /\ ret.op \in {"optsnap", "opthist"}
             => /\ ret.out.t = "IBKRApiError"
                /\ ret.out.code = 200
                /\ ret.out.message[2] = ret.symbol

\* The historical operation for AAPL with preference NASDAQBX has failed
\* after all 13 attempts came back without a match.
C25_AllAttemptsExhausted ==
    /\ ret.op = "opthist"
    /\ ret.symbol = "AAPL"
    /\ ret.pref = "NASDAQBX"
    /\ ret.out.t = "IBKRApiError"
    /\ Len(ret.log) = 26
    /\ \A p \in 1..Len(ret.log) : ret.log[p].call = "done" => ret.log[p].found = 0


\* The request_sec_def_opt_params_async call that is under way or has just
\* ended: its log and what it was called with.
SecDef ==
    IF \E c \in Callers : caller[c].kind = "optparams"
    THEN LET me == caller[CHOOSE x \in Callers : caller[x].kind = "optparams"]
         IN [on |-> TRUE, log |-> me.log, symbol |-> me.symbol, conId |-> me.conId,
             ended |-> FALSE]
    ELSE IF ret.op = "optparams"
    THEN [on |-> TRUE, log |-> ret.log, symbol |-> ret.symbol, conId |-> ret.conId,
          ended |-> TRUE]
    ELSE [on |-> FALSE, log |-> <<>>, symbol |-> "", conId |-> 0, ended |-> FALSE]

\* C26: request_sec_def_opt_params_async called for an underlying symbol
\* without an underlying id (0) sends exactly one contract-details lookup;
\* the option-parameters request is sent only after that lookup came back
\* with a match, and for the conId of the first contract found; when the
\* lookup comes back with no contract the call has failed with an error and
\* no option-parameters request was sent.
C26_UnderlyingResolvedOnce ==
    LET L == SecDef.log
    IN (SecDef.on /\ SecDef.conId = 0 /\ SecDef.symbol # "")
       => /\ Len(Lookups(L)) = 1
          /\ L[1].call = "reqContractDetails"
          /\ \A p \in 1..Len(L) :
               L[p].call = "reqSecDefOptParams"
               => (p = 3 /\ L[2].call = "done" /\ L[2].found > 0
                   /\ L[p].conId = L[2].first)
          /\ (Len(L) >= 2 /\ L[2].found > 0 /\ L[2].first # 0)
             => (Len(L) = 3 /\ L[3] = [call |-> "reqSecDefOptParams", conId |-> L[2].first])
          /\ (Len(L) >= 2 /\ L[2].found = 0)
             => (Len(L) = 2 /\ SecDef.ended /\ ret.out.t = "IBKRApiError")

\* The lookup for SPY came back with two contracts, conIds 2 and 1, and the
\* option-parameters request has been sent for conId 2.
C26_FirstOfTwoMatches ==
    /\ caller["t1"].pc = "requested"
    /\ caller["t1"].kind = "optparams"
    /\ caller["t1"].conId = 0
    /\ caller["t1"].log = <<LookupSent(1, "SPY"),
                            [call |-> "done", n |-> 1, found |-> 2, first |-> 2],
                            [call |-> "reqSecDefOptParams", conId |-> 2]>>


\* C27: when the gateway has delivered the parameter sets of the request and
\* their end event and no error, get_option_chain_strikes_async returns the
\* ascending, duplicate-free list of the strikes of exactly those sets that
\* hold the requested expiration and pass the exchange filter.
C27_StrikesOfMatchingSets ==
    (ret.op = "strikes" /\ ret.log.endAt >= 0 /\ ret.log.err = NoVal)
    => ret.out = Result(ChainStrikes([n \in 1..ret.log.endAt |->
                                         ParamSet(ret.log.data[n])],
                                     ret.expiration, ret.filter), "fresh")


\* C28: the map get_portfolio_positions_async returns has exactly the symbols
\* of the positions of security type STK received between its request and
\* positionEnd, each with the quantity and the average cost of the position
\* received for it (of the last one, when several came for one symbol); the
\* positions of every other security type are absent.
C28_StockPositionsBySymbol ==
    (ret.op = "pos" /\ ret.out.t = "result")
    => LET recv == SubSeq(ret.log.data, 1, ret.log.endAt)
           stk == {n \in 1..Len(recv) : recv[n].secType = "STK"}
           map == ret.out.v
       IN /\ ret.log.endAt >= 0
          /\ DOMAIN map = {recv[n].symbol : n \in stk}
          /\ \A n \in stk :
               (\A m \in stk : recv[m].symbol = recv[n].symbol => m <= n)
               => map[recv[n].symbol] = [position |-> recv[n].position,
                                         averageCost |-> recv[n].averageCost]
          /\ \A n \in 1..Len(recv) :
               recv[n].secType # "STK" => recv[n].symbol \notin DOMAIN map

\* A stock position and a futures position came before positionEnd and the
\* caller got the map with the stock position only.
C28_FuturesPositionFiltered ==
    /\ ret.op = "pos"
    /\ ret.out.t = "result"
    /\ ret.log.endAt = 2
    /\ {ret.log.data[n].secType : n \in 1..2} = {"STK", "FUT"}
    /\ DOMAIN ret.out.v = {"SPY"}


\* C29: a failure of a public operation reaches the awaiting caller as the
\* raised error itself: when the wait of the operation ends by its timeout
\* the caller gets the timeout error, and when it ends with an exception set
\* on its future (an error event of a code that is not allow-listed, the
\* closed connection) the caller gets that exception; no failure becomes a
\* normal return value or an error of another kind.
C29_FailureReachesCaller ==
    [][\A c \in Callers :
         (caller[c].pc = "awaiting" /\ caller'[c].pc = "done")
         => /\ fut[c].st = "pending" => ret'.out = TimeoutError
            /\ fut[c].st = "exception" => ret'.out = fut[c].val]_vars


\* C30: when the wait of execute_order_async ends by its timeout (placeOrder
\* has been sent by then), what the caller gets is not the timeout error a
\* request without side effect ends with, so that the caller can tell the
\* two apart.
C30_OrderTimeoutDistinct ==
    [][\A c \in Callers :
         (/\ caller[c].pc = "awaiting" /\ caller[c].kind = "order"
          /\ fut[c].st = "pending"
          /\ caller'[c].pc = "done")
         => ret'.out # TimeoutError]_vars


\* C31: the slot table is mutated only under the handler's lock, so while
\* connectionClosed on the receiver thread is iterating and clearing futures
\* and request_data_store, no step of the event loop (a registration, an
\* unregistration) changes them.
C31_SlotTableUnderLock ==
    [][(rt.pc \in {"cc", "cc_clear"} /\ rt' = rt)
       => <<futures, request_data_store>>' = <<futures, request_data_store>>]_vars

\* C32: while the event loop is running, a future goes from pending to done
\* only in the step in which the loop runs the callback posted for it; while
\* the loop is not running, an end event or a failing error that reaches the
\* slot of a pending future completes that future in the same step, and
\* nothing is posted.
C32_PostedOrDirect ==
    [][\A c \in Callers :
         /\ (loop_running /\ fut[c].st = "pending"
                /\ fut'[c].st \in {"result", "exception"})
            => (loopQ # <<>> /\ Head(loopQ).fut = c /\ loopQ' = Tail(loopQ))
         /\ (~loop_running /\ fut[c].st = "pending"
                /\ (arrived'[c].endAt # arrived[c].endAt
                      \/ arrived'[c].err # arrived[c].err))
            => (fut'[c].st \in {"result", "exception"} /\ loopQ' = loopQ)]_vars

\* The loop is stopped while t1 waits, and the end event of its request
\* completes its future on the receiver thread.
C32_DirectCompletion ==
    /\ ~loop_running
    /\ caller["t1"].pc = "awaiting"
    /\ fut["t1"].st = "pending"
    /\ ENABLED (HistoricalDataEnd(caller["t1"].id) /\ fut'["t1"].st = "result"
                  /\ loopQ' = loopQ)

\* C33: a stock request made with a contract that is not a stock fails with
\* ValueError when connected and with ConnectionError when not, and in both
\* cases issues no id, registers no slot and sends nothing.
C33_StockOnly ==
    [][\A c \in Callers, k \in {"hist", "mkt"} :
         StockRequest(c, k, "OPT")
         => /\ UNCHANGED <<wvars, hvars, fut, loopQ, lastIssued>>
            /\ caller'[c].pc = "done"
            /\ ret'.sent = <<>>
            /\ ret'.out = IF is_connected THEN ValueError ELSE NotConnectedError]_vars

\* t2, connected, has asked for the history or the snapshot of an option
\* contract through the stock handler and got the invalid-argument error.
C33_OptionContractRefused ==
    /\ is_connected
    /\ ret.op = "stock"
    /\ ret.c = "t2"
    /\ ret.out = ValueError

\* What C34 speaks of: upper case, the invalid arguments, the padded strike,
\* a string without its surrounding blanks.
C34_Upper(s) ==
    [n \in 1..Len(s) |-> CASE s[n] = "a" -> "A" [] s[n] = "c" -> "C" [] s[n] = "p" -> "P"
                           [] s[n] = "x" -> "X" [] OTHER -> s[n]]

C34_Invalid(a) ==
    \/ \A m \in 1..Len(a.ticker) : a.ticker[m] = " "
    \/ Len(a.expiration) # 6
    \/ \E m \in 1..Len(a.expiration) : a.expiration[m] \notin
          {"0", "1", "2", "3", "4", "5", "6", "7", "8", "9"}
    \/ C34_Upper(a.type) \notin {<<"C">>, <<"P">>}
    \/ a.strike <= 0

\* The last k decimal digits of n, most significant first.
C34_Digits(n, k) ==
    [j \in 1..k |-> <<"0", "1", "2", "3", "4", "5", "6", "7", "8", "9">>[((n \div 10^(k - j)) % 10) + 1]]

C34_Strike(a) ==
    LET n == a.strike \div 10
    IN IF n < 10^8 THEN C34_Digits(n, 8)
       ELSE C34_Digits(n, CHOOSE l \in 9..12 : n < 10^l /\ n >= 10^(l - 1))

C34_Trimmed(s) ==
    SubSeq(s, CHOOSE a \in 1..Len(s) : s[a] # " " /\ \A b \in 1..(a - 1) : s[b] = " ",
           CHOOSE a \in 1..Len(s) : s[a] # " " /\ \A b \in (a + 1)..Len(s) : s[b] = " ")

\* C34: format_polygon_option_symbol raises ValueError exactly when the
\* ticker is blank, the expiration is not six digits, the upper-cased type is
\* neither C nor P, or the strike is not positive; otherwise it returns "O:",
\* the upper-cased ticker without its surrounding whitespace, the expiration,
\* the upper-cased type and the whole part of strike * 1000 padded with zeros
\* on the left to at least 8 digits.
C34_OptionSymbol ==
    ret.op = "polygon"
    => IF C34_Invalid(ret.args) THEN ret.out = ValueError
       ELSE ret.out = Result(<<"O", ":">> \o C34_Trimmed(C34_Upper(ret.args.ticker))
                               \o ret.args.expiration \o C34_Upper(ret.args.type)
                               \o C34_Strike(ret.args), "fresh")

\* C34 as the specification words it: the ticker is upper-cased and nothing
\* else.
C34_OptionSymbolAsWorded ==
    ret.op = "polygon"
    => IF C34_Invalid(ret.args) THEN ret.out = ValueError
       ELSE ret.out = Result(<<"O", ":">> \o C34_Upper(ret.args.ticker)
                               \o ret.args.expiration \o C34_Upper(ret.args.type)
                               \o C34_Strike(ret.args), "fresh")

\* The symbol of a ticker given with a leading space, in lower case, with a
\* lower-case type and a fractional strike: "O:A250117P00450500".
C34_PaddedTickerFormatted ==
    /\ ret.op = "polygon"
    /\ ret.args.ticker = <<" ", "a">>
    /\ ret.args.type = <<"p">>
    /\ ret.args.strike = 4505000
    /\ ret.out = Result(<<"O", ":", "A", "2", "5", "0", "1", "1", "7", "P",
                          "0", "0", "4", "5", "0", "5", "0", "0">>, "fresh")

\* C35: an error event with a code outside the allow-list whose request id is
\* -1 or is not registered in futures changes nothing: futures,
\* request_data_store, the positions slot, every future, the completions
\* posted to the loop and the connection state stay as they were. Stated on
\* every step: a step that changes one of these is not such an error event.
C35_UnroutedErrorFailsNothing ==
    [][(<<wvars, hvars, fut, loopQ>>' # <<wvars, hvars, fut, loopQ>>)
          => \A i \in EventIds, m \in ErrorMessages :
                 \A code \in ErrorCodes \ IGNORABLE_ERROR_CODES :
                     (i = NO_ID \/ i \notin DOMAIN futures) => ~Error(i, code, m)]_vars

\* Both callers wait on their slots, and an error with code 200 and id -1 is
\* delivered without changing any of them.
C35_GeneralErrorWhilePending ==
    /\ \A c \in Callers : caller[c].pc = "awaiting" /\ fut[c].st = "pending"
    /\ Cardinality(DOMAIN futures) = 2
    /\ ENABLED (Error(NO_ID, 200, "msg") /\ UNCHANGED <<wvars, hvars, fut, loopQ, nEvents>>)

\* C36: while the positions call of caller c is pending in the positions
\* slot, no step of another caller (the registration of its own positions
\* call, the cleanup of one) replaces or drops the slot or the positions
\* collected for c.
C36_PositionsSlotKept ==
    [][\A c, d \in Callers :
         (c # d /\ positions_future = c /\ fut[c].st = "pending"
            /\ caller'[d] # caller[d])
         => (positions_future' = c /\ positions_data' = positions_data)]_vars

\* C37: the accumulator registered for a pending request stays the object and
\* the shape it was registered with while the request stays registered: no
\* callback of the receiver thread replaces it.
C37_AccumulatorShapeKept ==
    [][\A i \in DOMAIN request_data_store :
         (i \in DOMAIN futures /\ caller' = caller /\ rt.pc = "running" /\ rt' = rt)
         => /\ i \in DOMAIN request_data_store'
            /\ request_data_store'[i].shape = request_data_store[i].shape
            /\ request_data_store'[i].obj = request_data_store[i].obj]_vars

\* C38: the list a historical-data or contract-details request returns is
\* the data events that had reached its slot when its end event was
\* processed; the data events that came after the end event are not in it.
C38_ResultFixedAtEnd ==
    (CallerReturned /\ ret.op \in {"hist", "cd"} /\ ret.out.t = "result")
        => /\ ret.log.endAt # -1
           /\ ret.out.v = SubSeq(ret.log.data, 1, ret.log.endAt)

\* C39: connect() called while is_connected() is true returns True in that
\* step and leaves the wrapper's state (handshake state, futures,
\* request_data_store, positions slot), the connected flag, the socket, the
\* receiver thread, every caller's future and the posted completions as they
\* were.
C39_ConnectWhileConnected ==
    [][(is_connected /\ (ConnectAlready \/ \E res \in {"ok", "refused", "raise"} : ConnectStart(res)))
         => /\ ret' = ConnectReturned(TRUE)
            /\ connPc' = "idle"
            /\ UNCHANGED <<wvars, is_connected_flag, api_thread, clientConnected, rt, fut,
                           loopQ, caller>>]_vars

\* connect() has returned True while t1's request was pending on the
\* established connection, and the request is still pending.
C39_ConnectedWithPendingRequest ==
    /\ ret = ConnectReturned(TRUE)
    /\ is_connected
    /\ initial_connection_made
    /\ caller["t1"].pc = "awaiting"
    /\ fut["t1"].st = "pending"
    /\ caller["t1"].id \in DOMAIN futures

\* C40: when the lookup of a qualification attempt comes back without a
\* match (an empty list, an error of the gateway, the timeout, the loss of
\* the connection's slot) and it was not the last attempt, the next attempt's
\* lookup is sent; the operation fails with the could-not-qualify error only
\* when it was the last one. At any time at most one lookup of a
\* qualification has been sent and has not come back.
C40_FailedAttemptGoesOn ==
    [][\A c \in Callers :
         /\ caller'[c].pc = "qualifying"
            => LET log == caller'[c].log
               IN Len(Lookups(log)) - Len(SelectSeq(log, LAMBDA e : e.call = "done")) = 1
         /\ \A out \in LookupOutcomes :
              (~Qualified(out) /\ QualifyLookupReturns(c, out))
              => LET me == caller[c]
                     configs == attempt_configs(me.pref)
                 IN IF me.n < Len(configs)
                    THEN /\ caller'[c].pc = "qualifying"
                         /\ caller'[c].n = me.n + 1
                         /\ caller'[c].log = me.log \o <<LookupDone(me.n, out),
                                                          LookupSent(me.n + 1, configs[me.n + 1])>>
                    ELSE /\ caller'[c].pc = "done"
                         /\ ret'.out = CouldNotQualify(me.kind, me.symbol)]_vars

\* The first attempt of a qualification came back with nothing, and the
\* lookup of the second attempt is under way.
C40_SecondAttemptUnderWay ==
    /\ caller["t1"].pc = "qualifying"
    /\ caller["t1"].n = 2
    /\ Len(caller["t1"].log) = 3
    /\ caller["t1"].log[2].call = "done"
    /\ caller["t1"].log[2].found = 0
    /\ caller["t1"].log[3] = LookupSent(2, attempt_configs(caller["t1"].pref)[2])

====
